---------------------------- MODULE Spec2Model ----------------------------
(***************************************************************************)
(* A model of the note classification-and-extraction engine:               *)
(*   parsers/base.py               ParserRegistry                          *)
(*   parsers/time_entry_parser.py  TimeEntryParser                         *)
(*   parsers/training_parser.py    TrainingParser                          *)
(*   parsers/hackernews_parser.py  HackerNewsParser                        *)
(*   parsers/generic_notes_parser.py GenericNotesParser                    *)
(*   parse_notes.py                the batch driver                        *)
(*                                                                         *)
(* A Python str is a sequence of one-character strings.  Characters that   *)
(* are not ASCII are written by their code point: "u2610" is the unchecked *)
(* box, "u2611" the checked box, "u0663" ARABIC-INDIC DIGIT THREE (a       *)
(* character that Python's \d matches and int() reads as 3).               *)
(***************************************************************************)
EXTENDS Integers, Sequences, FiniteSets, TLC

VARIABLES
    parsers,          \* ParserRegistry._parsers: the list of registered classes
    note,             \* the note object the caller holds (note_data)
    result,           \* what the last call returned or raised
    remembered,       \* history: an earlier Registry.parse call, kept to compare with
    files,            \* batch driver: json_files, one descriptor per input file
    idx,              \* batch driver: number of files the for loop has taken
    processed_count,  \* batch driver: main's processed_count
    attempts          \* history: the files process_json_file was called on, in order

vars == <<parsers, note, result, remembered, files, idx, processed_count, attempts>>

None == [kind |-> "none"]

(***************************************************************************)
(* Bounds of the model.                                                    *)
(***************************************************************************)
MaxLines == 3        \* lines in a note's text
MaxParsers == 3      \* length of the registry's list
MaxFiles == 3        \* files in the input directory

(***************************************************************************)
(* Characters and the str methods the parsers use.                         *)
(***************************************************************************)
NL == "\n"
UNCHECKED_BOX == "u2610"
CHECKED_BOX == "u2611"

AsciiDigits == {"0", "1", "2", "3", "4", "5", "6", "7", "8", "9"}

\* str.isspace / the regex class \s, on the characters of the model
IsSpace(c) == c \in {" ", "\t", "\n"}

\* the regex class \d of a str pattern: every Unicode decimal digit
IsDigit(c) == c \in AsciiDigits \cup {"u0663"}

\* the value int() gives a decimal digit
DigitValue(c) ==
    CASE c = "0" -> 0 [] c = "1" -> 1 [] c = "2" -> 2 [] c = "3" -> 3
      [] c = "4" -> 4 [] c = "5" -> 5 [] c = "6" -> 6 [] c = "7" -> 7
      [] c = "8" -> 8 [] c = "9" -> 9 [] c = "u0663" -> 3

\* ord(c), for the characters a canonical time can hold; str comparison
\* orders by it
CodePoint(c) ==
    CASE c \in AsciiDigits -> 48 + DigitValue(c)
      [] c = ":" -> 58
      [] c = "u0663" -> 1635

\* int(s) of a string of decimal digits
RECURSIVE IntOf(_)
IntOf(s) ==
    IF s = <<>> THEN 0
    ELSE 10 * IntOf(SubSeq(s, 1, Len(s) - 1)) + DigitValue(s[Len(s)])

\* a < b for str: lexicographic by code point
RECURSIVE StrLess(_, _)
StrLess(a, b) ==
    IF b = <<>> THEN FALSE
    ELSE IF a = <<>> THEN TRUE
    ELSE IF a[1] = b[1] THEN StrLess(Tail(a), Tail(b))
    ELSE CodePoint(a[1]) < CodePoint(b[1])

RECURSIVE LStrip(_)
LStrip(s) == IF s # <<>> /\ IsSpace(s[1]) THEN LStrip(Tail(s)) ELSE s

RECURSIVE RStrip(_)
RStrip(s) ==
    IF s # <<>> /\ IsSpace(s[Len(s)]) THEN RStrip(SubSeq(s, 1, Len(s) - 1)) ELSE s

\* str.strip()
Strip(s) == RStrip(LStrip(s))

\* s.split('\n'): always at least one piece
RECURSIVE SplitLines(_)
SplitLines(s) ==
    IF \A i \in 1..Len(s) : s[i] # NL THEN <<s>>
    ELSE LET i == CHOOSE k \in 1..Len(s) :
                      s[k] = NL /\ \A j \in 1..(k - 1) : s[j] # NL
         IN  <<SubSeq(s, 1, i - 1)>> \o SplitLines(SubSeq(s, i + 1, Len(s)))

\* '\n'.join(lines)
RECURSIVE JoinLines(_)
JoinLines(ls) ==
    IF ls = <<>> THEN <<>>
    ELSE IF Len(ls) = 1 THEN ls[1]
    ELSE ls[1] \o <<NL>> \o JoinLines(Tail(ls))

\* s.zfill(2)
ZFill2(s) == IF Len(s) >= 2 THEN s ELSE IF Len(s) = 1 THEN <<"0">> \o s ELSE <<"0", "0">>

\* the number of leading characters of s, from position i on, that satisfy
\* the class: how far a greedy \s* or \d* runs
RECURSIVE SpaceRun(_, _)
SpaceRun(s, i) == IF i <= Len(s) /\ IsSpace(s[i]) THEN 1 + SpaceRun(s, i + 1) ELSE 0

RECURSIVE DigitRun(_, _)
DigitRun(s, i) == IF i <= Len(s) /\ IsDigit(s[i]) THEN 1 + DigitRun(s, i + 1) ELSE 0

\* the position behind a greedy \s* or \d* that starts at position p
SkipSpaces(s, p) == p + SpaceRun(s, p)

SkipDigits(s, p) == p + DigitRun(s, p)

(***************************************************************************)
(* Notes.  A note is any JSON value; a dict is read only through           *)
(* note_data.get(key, default), so an absent key is the default value.     *)
(***************************************************************************)
StrId(s) == [type |-> "str", value |-> s]
IntId(s) == [type |-> "int", value |-> s]

DictNote(id, title, text, labels, created, edited) ==
    [shape |-> "dict", id |-> id, title |-> title, text |-> text,
     labels |-> labels, created |-> created, edited |-> edited]

\* a JSON value that is not an object: a list, a string, null
NonDictNote(shape) ==
    [shape |-> shape, id |-> StrId(<<>>), title |-> <<>>, text |-> <<>>,
     labels |-> <<>>, created |-> <<>>, edited |-> <<>>]

\* isinstance(note_data, dict)
IsDict(n) == n.shape = "dict"

Ok(v) == [kind |-> "ok", value |-> v]
\* an exception: its class and the parts of its message
Raise(type, message) == [kind |-> "error", type |-> type, message |-> message]

\* ValueError("note_data must be a dictionary"), raised by every parse()
NotADictionary == <<"note_data must be a dictionary">>


(***************************************************************************)
(* TimeEntryParser (parsers/time_entry_parser.py)                          *)
(***************************************************************************)
NoMatch == [matched |-> FALSE, group1 |-> <<>>, group2 |-> <<>>]

\* the position behind [\u2610\u2611]? tried at position p
SkipBox(s, p) ==
    IF p <= Len(s) /\ s[p] \in {UNCHECKED_BOX, CHECKED_BOX} THEN p + 1 ELSE p

\* re.match(r'^\s*[\u2610\u2611]?\s*(\d{3,4})\s+(.+)$', line) for a line
\* without '\n'.  The classes \s, the glyphs and \d are disjoint, so the
\* prefix matches in one way; \d{3,4}\s+ needs the digit run to be exactly 3
\* or 4 long; (.+) takes what follows the white space, or, when nothing
\* follows, the last of at least two white-space characters.
TimeEntry_TIME_CODE_PATTERN(line) ==
    LET i1 == SkipSpaces(line, 1)
        i2 == SkipBox(line, i1)
        i3 == SkipSpaces(line, i2)
        i4 == SkipDigits(line, i3)
        i5 == SkipSpaces(line, i4)
    IN  IF i4 - i3 \in {3, 4} /\ i5 - i4 >= 1 /\ (i5 <= Len(line) \/ i5 - i4 >= 2)
        THEN [matched |-> TRUE,
              group1 |-> SubSeq(line, i3, i4 - 1),
              group2 |-> IF i5 <= Len(line) THEN SubSeq(line, i5, Len(line))
                         ELSE <<line[Len(line)]>>]
        ELSE NoMatch

TimeEntry_is_valid_time_code(time_code) ==
    IF Len(time_code) = 3
    THEN LET hours == IntOf(SubSeq(time_code, 1, 1))
             minutes == IntOf(SubSeq(time_code, 2, 3))
         IN  0 <= hours /\ hours <= 23 /\ 0 <= minutes /\ minutes <= 59
    ELSE IF Len(time_code) = 4
    THEN LET hours == IntOf(SubSeq(time_code, 1, 2))
             minutes == IntOf(SubSeq(time_code, 3, 4))
         IN  0 <= hours /\ hours <= 23 /\ 0 <= minutes /\ minutes <= 59
    ELSE FALSE

TimeEntry_parse_time_code(time_code) ==
    IF Len(time_code) = 3
    THEN ZFill2(SubSeq(time_code, 1, 1)) \o <<":">> \o ZFill2(SubSeq(time_code, 2, 3))
    ELSE IF Len(time_code) = 4
    THEN ZFill2(SubSeq(time_code, 1, 2)) \o <<":">> \o ZFill2(SubSeq(time_code, 3, 4))
    ELSE <<>>

\* the for loop of can_parse: time_entry_count over the lines
RECURSIVE TimeEntry_time_entry_count(_)
TimeEntry_time_entry_count(lines) ==
    IF lines = <<>> THEN 0
    ELSE LET Counted(match) ==
                 IF match.matched /\ TimeEntry_is_valid_time_code(match.group1)
                 THEN 1 ELSE 0
         IN  Counted(TimeEntry_TIME_CODE_PATTERN(Strip(lines[1])))
             + TimeEntry_time_entry_count(Tail(lines))

TimeEntry_can_parse_AtLeastOne(n) ==
    IF ~IsDict(n) THEN FALSE
    ELSE IF n.text = <<>> THEN FALSE
    ELSE TimeEntry_time_entry_count(SplitLines(Strip(n.text))) >= 1

TimeEntry_can_parse(n) ==
    IF ~IsDict(n) THEN FALSE
    ELSE IF n.text = <<>> THEN FALSE
    ELSE TimeEntry_time_entry_count(SplitLines(Strip(n.text))) >= 2

\* first index of character c in s, 0 when absent
IndexOf(s, c) ==
    IF \E i \in 1..Len(s) : s[i] = c
    THEN CHOOSE i \in 1..Len(s) : s[i] = c /\ \A j \in 1..(i - 1) : s[j] # c
    ELSE 0

\* _extract_date_from_timestamp.  For an ISO timestamp in extended format
\* strftime('%Y-%m-%d') is the text before the 'T' or the space, which is also
\* what the except branch returns for any other string.
TimeEntry_extract_date_from_timestamp(timestamp) ==
    IF timestamp = <<>> THEN <<>>
    ELSE IF IndexOf(timestamp, "T") > 0
    THEN SubSeq(timestamp, 1, IndexOf(timestamp, "T") - 1)
    ELSE IF IndexOf(timestamp, " ") > 0
    THEN SubSeq(timestamp, 1, IndexOf(timestamp, " ") - 1)
    ELSE timestamp

\* the entries appended by the for loop of _extract_time_entries, in line order
RECURSIVE TimeEntry_entries_in_line_order(_, _)
TimeEntry_entries_in_line_order(lines, base_date) ==
    IF lines = <<>> THEN <<>>
    ELSE LET Entry(match, time_str, raw_line) ==
                 [timestamp |-> IF base_date # <<>>
                                THEN base_date \o <<"T">> \o time_str \o <<":", "0", "0">>
                                ELSE time_str \o <<":", "0", "0">>,
                  time |-> time_str,
                  date |-> base_date,
                  activity |-> Strip(match.group2),
                  raw_line |-> raw_line]
             Appended(match) ==
                 IF match.matched /\ TimeEntry_is_valid_time_code(match.group1)
                 THEN <<Entry(match, TimeEntry_parse_time_code(match.group1),
                              Strip(lines[1]))>>
                 ELSE <<>>
         IN  Appended(TimeEntry_TIME_CODE_PATTERN(Strip(lines[1])))
             \o TimeEntry_entries_in_line_order(Tail(lines), base_date)

\* the sort, with a fault: it is not stable, an entry goes before the
\* entries of equal key
RECURSIVE InsertByTime_BeforeEqual(_, _)
InsertByTime_BeforeEqual(sorted, e) ==
    IF sorted = <<>> THEN <<e>>
    ELSE IF ~StrLess(sorted[1].time, e.time) THEN <<e>> \o sorted
    ELSE <<sorted[1]>> \o InsertByTime_BeforeEqual(Tail(sorted), e)

\* list.sort(key=lambda x: x['time']) is stable: an entry goes behind every
\* entry whose key is not greater
RECURSIVE InsertByTime(_, _)
InsertByTime(sorted, e) ==
    IF sorted = <<>> THEN <<e>>
    ELSE IF StrLess(e.time, sorted[1].time) THEN <<e>> \o sorted
    ELSE <<sorted[1]>> \o InsertByTime(Tail(sorted), e)

RECURSIVE SortByTime(_)
SortByTime(es) ==
    IF es = <<>> THEN <<>>
    ELSE InsertByTime(SortByTime(SubSeq(es, 1, Len(es) - 1)), es[Len(es)])

TimesOf(es) == [i \in 1..Len(es) |-> es[i].time]

OutOfOrderWarning(original_order, sorted_order) ==
    [message |-> "Time entries are out of chronological order.",
     original_order |-> original_order, sorted_order |-> sorted_order]

TimeEntry_parse_warnings_Always(original_order, sorted_order) ==
    IF Len(original_order) >= 2
    THEN <<OutOfOrderWarning(original_order, sorted_order)>>
    ELSE <<>>

\* the warning of _extract_time_entries
TimeEntry_parse_warnings(original_order, sorted_order) ==
    IF original_order # sorted_order
    THEN <<OutOfOrderWarning(original_order, sorted_order)>>
    ELSE <<>>

TimeEntry_extract_time_entries(text, created_timestamp) ==
    LET Warned(original_order, entries) ==
            [entries |-> entries,
             parse_warnings |-> TimeEntry_parse_warnings(original_order, TimesOf(entries))]
        Sorted(appended) == Warned(TimesOf(appended), SortByTime(appended))
    IN  Sorted(TimeEntry_entries_in_line_order(
                   SplitLines(Strip(text)),
                   TimeEntry_extract_date_from_timestamp(created_timestamp)))

TimeEntry_parse(n) ==
    IF ~IsDict(n) THEN Raise("ValueError", NotADictionary)
    ELSE LET ParseResult(extracted) ==
                 Ok([type |-> "ParseResult",
                     note_id |-> n.id,
                     title |-> n.title,
                     date |-> TimeEntry_extract_date_from_timestamp(n.created),
                     created |-> n.created,
                     last_updated |-> n.edited,
                     time_entries |-> extracted.entries,
                     raw_text |-> n.text,
                     warnings |-> extracted.parse_warnings])
         IN  ParseResult(TimeEntry_extract_time_entries(n.text, n.created))

(***************************************************************************)
(* HackerNewsParser (parsers/hackernews_parser.py)                         *)
(***************************************************************************)
\* s[i..] starts with the literal lit
StartsWithAt(s, i, lit) ==
    /\ i >= 1
    /\ i + Len(lit) - 1 <= Len(s)
    /\ SubSeq(s, i, i + Len(lit) - 1) = lit

\* the regex class \w: letters, decimal digits and the underscore
IsWordChar(c) ==
    \/ IsDigit(c)
    \/ c = "_"
    \/ c \in {"a", "b", "c", "d", "e", "f", "g", "h", "i", "j", "k", "l", "m",
              "n", "o", "p", "q", "r", "s", "t", "u", "v", "w", "x", "y", "z"}
    \/ c \in {"A", "B", "C", "D", "E", "F", "G", "H", "I", "J", "K", "L", "M",
              "N", "O", "P", "Q", "R", "S", "T", "U", "V", "W", "X", "Y", "Z"}

RECURSIVE WordRun(_, _)
WordRun(s, i) == IF i <= Len(s) /\ IsWordChar(s[i]) THEN 1 + WordRun(s, i + 1) ELSE 0

DOWNLOAD_HN_LABEL == <<"D", "o", "w", "n", "l", "o", "a", "d", "-", "H", "N">>

HNHost ==
    <<":", "/", "/", "n", "e", "w", "s", ".", "y", "c", "o", "m", "b", "i", "n",
      "a", "t", "o", "r", ".", "c", "o", "m", "/", "i", "t", "e", "m", "?", "i",
      "d", "=">>

\* HN_URL_PATTERN = r'https?://news\.ycombinator\.com/item\?id=(\d+)' tried at
\* position i: the length of the match (0: no match) and where group 1 starts
HN_URL_PATTERN(s, i) ==
    LET j1 == i + 4
        j2 == IF StartsWithAt(s, j1, <<"s">>) THEN j1 + 1 ELSE j1
        j3 == j2 + Len(HNHost)
        nd == DigitRun(s, j3)
    IN  IF StartsWithAt(s, i, <<"h", "t", "t", "p">>) /\ StartsWithAt(s, j2, HNHost) /\ nd >= 1
        THEN [len |-> j3 + nd - i, group1 |-> j3]
        ELSE [len |-> 0, group1 |-> 0]

\* _extract_hn_urls: re.finditer from position i on: the leftmost match, then
\* the search goes on behind it (matches do not overlap)
RECURSIVE HackerNews_extract_hn_urls_from(_, _)
HackerNews_extract_hn_urls_from(s, i) ==
    LET Found(j, m) ==
            <<[url |-> SubSeq(s, j, j + m.len - 1),
               item_id |-> SubSeq(s, m.group1, j + m.len - 1)]>>
            \o HackerNews_extract_hn_urls_from(s, j + m.len)
        Leftmost(j) == Found(j, HN_URL_PATTERN(s, j))
        Search(starts) ==
            IF starts = {} THEN <<>>
            ELSE Leftmost(CHOOSE k \in starts : \A l \in starts : k <= l)
    IN  Search({ j \in i..Len(s) : HN_URL_PATTERN(s, j).len > 0 })

HackerNews_extract_hn_urls(text) == HackerNews_extract_hn_urls_from(text, 1)

\* _extract_hn_urls_from_title_and_body, with a fault: the text comes first
HackerNews_extract_hn_urls_from_title_and_body_TextFirst(title, text) ==
    HackerNews_extract_hn_urls(text) \o HackerNews_extract_hn_urls(title)

HackerNews_extract_hn_urls_from_title_and_body(title, text) ==
    HackerNews_extract_hn_urls(title) \o HackerNews_extract_hn_urls(text)

\* _extract_hashtag_labels: the matches of r'#(\w+)'
RECURSIVE HackerNews_extract_hashtag_labels_from(_, _)
HackerNews_extract_hashtag_labels_from(s, i) ==
    LET Found(j, n) ==
            <<SubSeq(s, j + 1, j + n)>>
            \o HackerNews_extract_hashtag_labels_from(s, j + 1 + n)
        Leftmost(j) == Found(j, WordRun(s, j + 1))
        Search(starts) ==
            IF starts = {} THEN <<>>
            ELSE Leftmost(CHOOSE k \in starts : \A l \in starts : k <= l)
    IN  Search({ j \in i..Len(s) : s[j] = "#" /\ WordRun(s, j + 1) >= 1 })

HackerNews_extract_hashtag_labels(text) == HackerNews_extract_hashtag_labels_from(text, 1)

\* a label is a JSON value [type, value]; str(label) of a string is itself, of
\* a number its digits
StrOfLabel(label) == label.value

\* can_parse, with a fault: the title is not searched
HackerNews_can_parse_TextOnly(n) ==
    IF ~IsDict(n) THEN FALSE
    ELSE \/ \E k \in 1..Len(n.labels) : StrOfLabel(n.labels[k]) = DOWNLOAD_HN_LABEL
         \/ HackerNews_extract_hn_urls(n.text) # <<>>

HackerNews_can_parse(n) ==
    IF ~IsDict(n) THEN FALSE
    ELSE LET has_hn_label ==
                 \E k \in 1..Len(n.labels) : StrOfLabel(n.labels[k]) = DOWNLOAD_HN_LABEL
             has_hn_url ==
                 \/ HackerNews_extract_hn_urls(n.text) # <<>>
                 \/ HackerNews_extract_hn_urls(n.title) # <<>>
         IN  has_hn_label \/ has_hn_url

HackerNews_parse(n) ==
    IF ~IsDict(n) THEN Raise("ValueError", NotADictionary)
    ELSE LET hn_urls == HackerNews_extract_hn_urls_from_title_and_body(n.title, n.text)
             all_labels == [k \in 1..Len(n.labels) |-> StrOfLabel(n.labels[k])]
                           \o HackerNews_extract_hashtag_labels(n.text)
         IN  Ok([type |-> "ParsedNote",
                 note_id |-> n.id,
                 title |-> n.title,
                 url |-> IF hn_urls # <<>> THEN hn_urls[1].url ELSE <<>>,
                 item_id |-> IF hn_urls # <<>> THEN hn_urls[1].item_id ELSE <<>>,
                 labels |-> all_labels,
                 description |-> n.text,
                 hn_links |-> hn_urls])

(***************************************************************************)
(* GenericNotesParser (parsers/generic_notes_parser.py)                    *)
(***************************************************************************)
\* the class [^\s<>"')}\]] of URL_PATTERN
IsUrlChar(c) == ~IsSpace(c) /\ c \notin {"<", ">", "\"", "'", ")", "}", "]"}

RECURSIVE UrlRun(_, _)
UrlRun(s, i) == IF i <= Len(s) /\ IsUrlChar(s[i]) THEN 1 + UrlRun(s, i + 1) ELSE 0

\* URL_PATTERN = r'https?://[^\s<>"\')}\]]+|www\.[^\s<>"\')}\]]+' tried at
\* position i: the length of the match, 0 when neither alternative matches
Generic_URL_PATTERN(s, i) ==
    LET j1 == i + 4
        j2 == IF StartsWithAt(s, j1, <<"s">>) THEN j1 + 1 ELSE j1
        j3 == j2 + 3
        n1 == UrlRun(s, j3)
        n2 == UrlRun(s, i + 4)
    IN  IF StartsWithAt(s, i, <<"h", "t", "t", "p">>)
           /\ StartsWithAt(s, j2, <<":", "/", "/">>) /\ n1 >= 1
        THEN j3 + n1 - i
        ELSE IF StartsWithAt(s, i, <<"w", "w", "w", ".">>) /\ n2 >= 1
        THEN 4 + n2
        ELSE 0

\* _extract_links, with a fault: the seen set is not consulted
RECURSIVE Generic_extract_links_from_KeepAll(_, _, _)
Generic_extract_links_from_KeepAll(s, i, links) ==
    LET Found(j, len) ==
            Generic_extract_links_from_KeepAll(
                s, j + len, Append(links, SubSeq(s, j, j + len - 1)))
        Leftmost(j) == Found(j, Generic_URL_PATTERN(s, j))
        Search(starts) ==
            IF starts = {} THEN links
            ELSE Leftmost(CHOOSE k \in starts : \A l \in starts : k <= l)
    IN  Search({ j \in i..Len(s) : Generic_URL_PATTERN(s, j) > 0 })

\* _extract_links: the matches in order, each link kept at its first occurrence
RECURSIVE Generic_extract_links_from(_, _, _)
Generic_extract_links_from(s, i, links) ==
    LET Seen(j, len, link) ==
            Generic_extract_links_from(
                s, j + len,
                IF \E k \in 1..Len(links) : links[k] = link
                THEN links ELSE Append(links, link))
        Found(j, len) == Seen(j, len, SubSeq(s, j, j + len - 1))
        Leftmost(j) == Found(j, Generic_URL_PATTERN(s, j))
        Search(starts) ==
            IF starts = {} THEN links
            ELSE Leftmost(CHOOSE k \in starts : \A l \in starts : k <= l)
    IN  Search({ j \in i..Len(s) : Generic_URL_PATTERN(s, j) > 0 })

Generic_extract_links(text) == Generic_extract_links_from(text, 1, <<>>)

\* re.match(CHECKBOX_PATTERN, line), CHECKBOX_PATTERN = r'^\s*([\u2610\u2611])\s*(.+)$',
\* for a line without '\n'
Generic_CHECKBOX_PATTERN(line) ==
    LET i1 == 1 + SpaceRun(line, 1)
        ws == SpaceRun(line, i1 + 1)
        i2 == i1 + 1 + ws
    IN  IF i1 <= Len(line) /\ line[i1] \in {UNCHECKED_BOX, CHECKED_BOX}
           /\ (i2 <= Len(line) \/ ws >= 1)
        THEN [matched |-> TRUE,
              group1 |-> line[i1],
              group2 |-> IF i2 <= Len(line) THEN SubSeq(line, i2, Len(line))
                         ELSE <<line[Len(line)]>>]
        ELSE NoMatch

\* the for loop of parse, with a fault: a free-text line is kept unstripped
RECURSIVE Generic_scan_lines_RawRest(_, _, _)
Generic_scan_lines_RawRest(lines, checkboxes, rest) ==
    IF lines = <<>> THEN [checkboxes |-> checkboxes, rest |-> rest]
    ELSE LET stripped_line == Strip(lines[1])
             checkbox_match == Generic_CHECKBOX_PATTERN(stripped_line)
         IN  IF stripped_line = <<>>
             THEN Generic_scan_lines_RawRest(Tail(lines), checkboxes, rest)
             ELSE IF checkbox_match.matched
             THEN Generic_scan_lines_RawRest(
                      Tail(lines),
                      Append(checkboxes,
                             [checked |-> checkbox_match.group1 = CHECKED_BOX,
                              text |-> Strip(checkbox_match.group2)]),
                      rest)
             ELSE Generic_scan_lines_RawRest(Tail(lines), checkboxes, Append(rest, lines[1]))

\* the for loop of parse over the lines: the checkboxes and the free-text lines
RECURSIVE Generic_scan_lines(_, _, _)
Generic_scan_lines(lines, checkboxes, rest) ==
    IF lines = <<>> THEN [checkboxes |-> checkboxes, rest |-> rest]
    ELSE LET stripped_line == Strip(lines[1])
             checkbox_match == Generic_CHECKBOX_PATTERN(stripped_line)
         IN  IF stripped_line = <<>>
             THEN Generic_scan_lines(Tail(lines), checkboxes, rest)
             ELSE IF checkbox_match.matched
             THEN Generic_scan_lines(
                      Tail(lines),
                      Append(checkboxes,
                             [checked |-> checkbox_match.group1 = CHECKED_BOX,
                              text |-> Strip(checkbox_match.group2)]),
                      rest)
             ELSE Generic_scan_lines(Tail(lines), checkboxes, Append(rest, stripped_line))

\* can_parse, with a fault: a dict without text is turned away
Generic_can_parse_NeedsText(n) == IF ~IsDict(n) THEN FALSE ELSE n.text # <<>>

\* can_parse, with a fault: the isinstance test is missing
Generic_can_parse_Anything(n) == TRUE

Generic_can_parse(n) == IF ~IsDict(n) THEN FALSE ELSE TRUE

Generic_parse(n) ==
    IF ~IsDict(n) THEN Raise("ValueError", NotADictionary)
    ELSE LET scanned == Generic_scan_lines(SplitLines(n.text), <<>>, <<>>)
         IN  Ok([type |-> "GenericNote",
                 note_id |-> n.id,
                 title |-> n.title,
                 links |-> Generic_extract_links(n.text),
                 checkboxes |-> scanned.checkboxes,
                 rest |-> scanned.rest])

(***************************************************************************)
(* TrainingParser (parsers/training_parser.py)                             *)
(***************************************************************************)
\* EXERCISE_PATTERNS, in declaration order (a dict keeps insertion order)
EXERCISE_PATTERNS ==
    << [abbr |-> <<"B", "p">>, full_name |-> "Bench Press"],
       [abbr |-> <<"M", "r">>, full_name |-> "Machine Row"],
       [abbr |-> <<"M", "s">>, full_name |-> "Machine Squat"],
       [abbr |-> <<"S", "q">>, full_name |-> "Squat"],
       [abbr |-> <<"D", "l">>, full_name |-> "Deadlift"],
       [abbr |-> <<"P", "u">>, full_name |-> "Pull-up"],
       [abbr |-> <<"D", "i", "p">>, full_name |-> "Dip"],
       [abbr |-> <<"R", "o", "w">>, full_name |-> "Row"],
       [abbr |-> <<"C", "u", "r", "l">>, full_name |-> "Curl"],
       [abbr |-> <<"P", "r", "e", "s", "s">>, full_name |-> "Press"] >>

\* no abbreviation: Python's None, which is falsy like no key of the table
NoAbbr == <<>>

UpperCase ==
    <<"A", "B", "C", "D", "E", "F", "G", "H", "I", "J", "K", "L", "M",
      "N", "O", "P", "Q", "R", "S", "T", "U", "V", "W", "X", "Y", "Z">>
LowerCase ==
    <<"a", "b", "c", "d", "e", "f", "g", "h", "i", "j", "k", "l", "m",
      "n", "o", "p", "q", "r", "s", "t", "u", "v", "w", "x", "y", "z">>

\* the case folding of re.IGNORECASE on the letters of the model
FoldCase ==
    [c \in { UpperCase[k] : k \in 1..26 } |->
        LowerCase[CHOOSE k \in 1..26 : UpperCase[k] = c]]

ToLower(c) == IF c \in DOMAIN FoldCase THEN FoldCase[c] ELSE c

LowerStr(s) == [k \in 1..Len(s) |-> ToLower(s[k])]

\* re.search(rf'\b{abbr}\b', text, re.IGNORECASE): the key stands somewhere in
\* the text with no word character right before or right after it
Training_abbr_search(abbr, text) ==
    \E i \in 1..Len(text) :
        /\ i + Len(abbr) - 1 <= Len(text)
        /\ LowerStr(SubSeq(text, i, i + Len(abbr) - 1)) = LowerStr(abbr)
        /\ (i = 1 \/ ~IsWordChar(text[i - 1]))
        /\ (i + Len(abbr) > Len(text) \/ ~IsWordChar(text[i + Len(abbr)]))

\* [x×]; "u00d7" is the multiplication sign
IsTimesSign(s, i) == i <= Len(s) /\ s[i] \in {"x", "u00d7"}

\* the position behind (?:\.\d+)? tried at position p
SkipFraction(s, p) ==
    IF p <= Len(s) /\ s[p] = "." /\ DigitRun(s, p + 1) >= 1
    THEN SkipDigits(s, p + 1) ELSE p

\* SET_REP_WEIGHT_PATTERN = r'(\d+)\s*[x×]\s*(\d+)\s*[x×]\s*(\d+(?:\.\d+)?)'
\* tried at position i.  Every \d+ and \s* runs as far as it can: the
\* character that ends a run can only be matched by the next element.
SET_REP_WEIGHT_PATTERN(s, i) ==
    LET e1 == SkipDigits(s, i)
        x1 == SkipSpaces(s, e1)
        b == SkipSpaces(s, x1 + 1)
        e2 == SkipDigits(s, b)
        x2 == SkipSpaces(s, e2)
        d == SkipSpaces(s, x2 + 1)
        e3 == SkipDigits(s, d)
        end == SkipFraction(s, e3)
    IN  IF e1 > i /\ IsTimesSign(s, x1) /\ e2 > b /\ IsTimesSign(s, x2) /\ e3 > d
        THEN [len |-> end - i,
              group1 |-> SubSeq(s, i, e1 - 1),
              group2 |-> SubSeq(s, b, e2 - 1),
              whole |-> SubSeq(s, d, e3 - 1),
              frac |-> IF end > e3 THEN SubSeq(s, e3 + 1, end - 1) ELSE <<>>]
        ELSE [len |-> 0, group1 |-> <<>>, group2 |-> <<>>, whole |-> <<>>, frac |-> <<>>]

RECURSIVE StripTrailingZeros(_)
StripTrailingZeros(s) ==
    IF s # <<>> /\ DigitValue(s[Len(s)]) = 0
    THEN StripTrailingZeros(SubSeq(s, 1, Len(s) - 1)) ELSE s

\* float(weight): the integer part and the fraction digits that count, so
\* that float("100") = float("100.0") and float("2.5") # float("2.05")
FloatOf(whole, frac) == [whole |-> IntOf(whole), frac |-> StripTrailingZeros(frac)]

\* _extract_sets: re.finditer over the line
RECURSIVE Training_extract_sets_from(_, _)
Training_extract_sets_from(s, i) ==
    IF i > Len(s) THEN <<>>
    ELSE LET Found(m) ==
                 IF m.len > 0
                 THEN <<[set |-> IntOf(m.group1), reps |-> IntOf(m.group2),
                         weight |-> FloatOf(m.whole, m.frac)]>>
                      \o Training_extract_sets_from(s, i + m.len)
                 ELSE Training_extract_sets_from(s, i + 1)
         IN  Found(SET_REP_WEIGHT_PATTERN(s, i))

Training_extract_sets(line) == Training_extract_sets_from(line, 1)

\* str.replace(old, new) for a one-character old
RECURSIVE ReplaceChar(_, _, _)
ReplaceChar(s, old, new) ==
    LET Leftmost(k) ==
            SubSeq(s, 1, k - 1) \o new \o ReplaceChar(SubSeq(s, k + 1, Len(s)), old, new)
        Search(at) ==
            IF at = {} THEN s
            ELSE Leftmost(CHOOSE j \in at : \A l \in at : j <= l)
    IN  Search({ k \in 1..Len(s) : s[k] = old })

Training_normalize_checkboxes(text) ==
    ReplaceChar(ReplaceChar(text, UNCHECKED_BOX, <<"-", " ", "[", " ", "]", " ">>),
                CHECKED_BOX, <<"-", " ", "[", "x", "]", " ">>)

\* can_parse, with a fault: the key and the set-triple are looked for line
\* by line, and one line has to hold both
Training_can_parse_SameLine(n) ==
    IF ~IsDict(n) THEN FALSE
    ELSE IF n.text = <<>> THEN FALSE
    ELSE LET lines == SplitLines(Training_normalize_checkboxes(n.text))
         IN  \E i \in 1..Len(lines) :
                 /\ \E k \in 1..Len(EXERCISE_PATTERNS) :
                        Training_abbr_search(EXERCISE_PATTERNS[k].abbr, lines[i])
                 /\ Training_extract_sets(lines[i]) # <<>>

Training_can_parse(n) ==
    IF ~IsDict(n) THEN FALSE
    ELSE IF n.text = <<>> THEN FALSE
    ELSE LET text == Training_normalize_checkboxes(n.text)
             has_exercise ==
                 \E k \in 1..Len(EXERCISE_PATTERNS) :
                     Training_abbr_search(EXERCISE_PATTERNS[k].abbr, text)
             has_set_format == Training_extract_sets(text) # <<>>
         IN  has_exercise /\ has_set_format

\* the inner for loop, with a fault: the key that stands first in the line
\* wins, not the key declared first
Training_matched_abbr_Leftmost(line) ==
    LET At(k, i) ==
            LET abbr == EXERCISE_PATTERNS[k].abbr
            IN  /\ i + Len(abbr) - 1 <= Len(line)
                /\ LowerStr(SubSeq(line, i, i + Len(abbr) - 1)) = LowerStr(abbr)
                /\ (i = 1 \/ ~IsWordChar(line[i - 1]))
                /\ (i + Len(abbr) > Len(line) \/ ~IsWordChar(line[i + Len(abbr)]))
        hits == { h \in (1..Len(line)) \X (1..Len(EXERCISE_PATTERNS)) : At(h[2], h[1]) }
    IN  IF hits = {} THEN NoAbbr
        ELSE EXERCISE_PATTERNS[
                 (CHOOSE h \in hits :
                      \A g \in hits : h[1] < g[1] \/ (h[1] = g[1] /\ h[2] <= g[2]))[2]].abbr

\* the inner for loop of _extract_exercises: the first key of the table, in
\* declaration order, that the line matches
Training_matched_abbr(line) ==
    IF \E k \in 1..Len(EXERCISE_PATTERNS) : Training_abbr_search(EXERCISE_PATTERNS[k].abbr, line)
    THEN EXERCISE_PATTERNS[
             CHOOSE k \in 1..Len(EXERCISE_PATTERNS) :
                 /\ Training_abbr_search(EXERCISE_PATTERNS[k].abbr, line)
                 /\ \A j \in 1..(k - 1) :
                        ~Training_abbr_search(EXERCISE_PATTERNS[j].abbr, line)].abbr
    ELSE NoAbbr

\* EXERCISE_PATTERNS[abbr]
FullNameOf(abbr) ==
    EXERCISE_PATTERNS[CHOOSE k \in 1..Len(EXERCISE_PATTERNS) :
                          EXERCISE_PATTERNS[k].abbr = abbr].full_name

\* abbr_to_use in exercises_dict, with a fault: the key is never found
DictHas_Never(exercises_dict, abbr) == FALSE

\* exercises_dict is kept as the list of its values in insertion order
DictHas(exercises_dict, abbr) ==
    \E k \in 1..Len(exercises_dict) : exercises_dict[k].abbreviation = abbr

\* the state of the scan before the first line, with a fault: an exercise is
\* current from the start
Training_scan_start_BpCurrent ==
    [exercises_dict |-> <<>>, current_exercise |-> <<"B", "p">>, previous_indent |-> 0]

\* the state of the scan before the first line
Training_scan_start ==
    [exercises_dict |-> <<>>, current_exercise |-> NoAbbr, previous_indent |-> 0]

\* one pass of the loop body, with a fault: sets that extend a record are
\* appended but total_sets keeps the count of the first line
Training_scan_line_StaleTotal(st, line) ==
    LET Stored(sets, abbr_to_use) ==
            IF sets # <<>> /\ abbr_to_use # NoAbbr
            THEN IF DictHas(st.exercises_dict, abbr_to_use)
                 THEN [k \in 1..Len(st.exercises_dict) |->
                          IF st.exercises_dict[k].abbreviation = abbr_to_use
                          THEN [st.exercises_dict[k] EXCEPT
                                   !.sets = @ \o sets,
                                   !.raw_line = @ \o <<NL>> \o Strip(line)]
                          ELSE st.exercises_dict[k]]
                 ELSE Append(st.exercises_dict,
                             [exercise_name |-> FullNameOf(abbr_to_use),
                              abbreviation |-> abbr_to_use,
                              sets |-> sets,
                              total_sets |-> Len(sets),
                              raw_line |-> Strip(line)])
            ELSE st.exercises_dict
        Body(current_indent, matched_abbr, sets, current_exercise, previous_indent) ==
            [exercises_dict |-> Stored(sets, current_exercise),
             current_exercise |->
                 IF current_indent <= previous_indent /\ matched_abbr = NoAbbr /\ sets = <<>>
                 THEN NoAbbr ELSE current_exercise,
             previous_indent |-> previous_indent]
        Matched(current_indent, matched_abbr) ==
            Body(current_indent, matched_abbr, Training_extract_sets(line),
                 IF matched_abbr # NoAbbr THEN matched_abbr ELSE st.current_exercise,
                 IF matched_abbr # NoAbbr THEN current_indent ELSE st.previous_indent)
    IN  Matched(Len(line) - Len(LStrip(line)), Training_matched_abbr(line))

\* one pass of the loop body, with a fault: the sets go to the exercise
\* carried over, when there is one, before the key matched on the line
Training_scan_line_CarriedFirst(st, line) ==
    LET Stored(sets, abbr_to_use) ==
            IF sets # <<>> /\ abbr_to_use # NoAbbr
            THEN IF DictHas(st.exercises_dict, abbr_to_use)
                 THEN [k \in 1..Len(st.exercises_dict) |->
                          IF st.exercises_dict[k].abbreviation = abbr_to_use
                          THEN [st.exercises_dict[k] EXCEPT
                                   !.sets = @ \o sets,
                                   !.total_sets = Len(st.exercises_dict[k].sets \o sets),
                                   !.raw_line = @ \o <<NL>> \o Strip(line)]
                          ELSE st.exercises_dict[k]]
                 ELSE Append(st.exercises_dict,
                             [exercise_name |-> FullNameOf(abbr_to_use),
                              abbreviation |-> abbr_to_use,
                              sets |-> sets,
                              total_sets |-> Len(sets),
                              raw_line |-> Strip(line)])
            ELSE st.exercises_dict
        Body(current_indent, matched_abbr, sets, current_exercise, previous_indent) ==
            [exercises_dict |-> Stored(sets, IF st.current_exercise # NoAbbr
                                             THEN st.current_exercise ELSE current_exercise),
             current_exercise |->
                 IF current_indent <= previous_indent /\ matched_abbr = NoAbbr /\ sets = <<>>
                 THEN NoAbbr ELSE current_exercise,
             previous_indent |-> previous_indent]
        Matched(current_indent, matched_abbr) ==
            Body(current_indent, matched_abbr, Training_extract_sets(line),
                 IF matched_abbr # NoAbbr THEN matched_abbr ELSE st.current_exercise,
                 IF matched_abbr # NoAbbr THEN current_indent ELSE st.previous_indent)
    IN  Matched(Len(line) - Len(LStrip(line)), Training_matched_abbr(line))

\* one pass of the loop body, with a fault: a line without key and sets
\* clears the current exercise whatever its indent
Training_scan_line_ClearAtAnyIndent(st, line) ==
    LET Stored(sets, abbr_to_use) ==
            IF sets # <<>> /\ abbr_to_use # NoAbbr
            THEN IF DictHas(st.exercises_dict, abbr_to_use)
                 THEN [k \in 1..Len(st.exercises_dict) |->
                          IF st.exercises_dict[k].abbreviation = abbr_to_use
                          THEN [st.exercises_dict[k] EXCEPT
                                   !.sets = @ \o sets,
                                   !.total_sets = Len(st.exercises_dict[k].sets \o sets),
                                   !.raw_line = @ \o <<NL>> \o Strip(line)]
                          ELSE st.exercises_dict[k]]
                 ELSE Append(st.exercises_dict,
                             [exercise_name |-> FullNameOf(abbr_to_use),
                              abbreviation |-> abbr_to_use,
                              sets |-> sets,
                              total_sets |-> Len(sets),
                              raw_line |-> Strip(line)])
            ELSE st.exercises_dict
        Body(current_indent, matched_abbr, sets, current_exercise, previous_indent) ==
            [exercises_dict |-> Stored(sets, current_exercise),
             current_exercise |->
                 IF matched_abbr = NoAbbr /\ sets = <<>>
                 THEN NoAbbr ELSE current_exercise,
             previous_indent |-> previous_indent]
        Matched(current_indent, matched_abbr) ==
            Body(current_indent, matched_abbr, Training_extract_sets(line),
                 IF matched_abbr # NoAbbr THEN matched_abbr ELSE st.current_exercise,
                 IF matched_abbr # NoAbbr THEN current_indent ELSE st.previous_indent)
    IN  Matched(Len(line) - Len(LStrip(line)), Training_matched_abbr(line))

\* one pass of the loop body, with a fault: a line whose sets go to the
\* current exercise moves previous_indent too
Training_scan_line_IndentOfSets(st, line) ==
    LET Stored(sets, abbr_to_use) ==
            IF sets # <<>> /\ abbr_to_use # NoAbbr
            THEN IF DictHas(st.exercises_dict, abbr_to_use)
                 THEN [k \in 1..Len(st.exercises_dict) |->
                          IF st.exercises_dict[k].abbreviation = abbr_to_use
                          THEN [st.exercises_dict[k] EXCEPT
                                   !.sets = @ \o sets,
                                   !.total_sets = Len(st.exercises_dict[k].sets \o sets),
                                   !.raw_line = @ \o <<NL>> \o Strip(line)]
                          ELSE st.exercises_dict[k]]
                 ELSE Append(st.exercises_dict,
                             [exercise_name |-> FullNameOf(abbr_to_use),
                              abbreviation |-> abbr_to_use,
                              sets |-> sets,
                              total_sets |-> Len(sets),
                              raw_line |-> Strip(line)])
            ELSE st.exercises_dict
        Body(current_indent, matched_abbr, sets, current_exercise, previous_indent) ==
            [exercises_dict |-> Stored(sets, current_exercise),
             current_exercise |->
                 IF current_indent <= previous_indent /\ matched_abbr = NoAbbr /\ sets = <<>>
                 THEN NoAbbr ELSE current_exercise,
             previous_indent |-> IF sets # <<>> /\ current_exercise # NoAbbr
                                 THEN current_indent ELSE previous_indent]
        Matched(current_indent, matched_abbr) ==
            Body(current_indent, matched_abbr, Training_extract_sets(line),
                 IF matched_abbr # NoAbbr THEN matched_abbr ELSE st.current_exercise,
                 IF matched_abbr # NoAbbr THEN current_indent ELSE st.previous_indent)
    IN  Matched(Len(line) - Len(LStrip(line)), Training_matched_abbr(line))

\* one pass of the body of the for loop of _extract_exercises.  After the
\* inner loop current_exercise is the matched key, or what it was; abbr_to_use
\* (matched_abbr if matched_abbr else current_exercise) is then current_exercise
\* in both cases
Training_scan_line(st, line) ==
    LET Stored(sets, abbr_to_use) ==
            IF sets # <<>> /\ abbr_to_use # NoAbbr
            THEN IF DictHas(st.exercises_dict, abbr_to_use)
                 THEN [k \in 1..Len(st.exercises_dict) |->
                          IF st.exercises_dict[k].abbreviation = abbr_to_use
                          THEN [st.exercises_dict[k] EXCEPT
                                   !.sets = @ \o sets,
                                   !.total_sets = Len(st.exercises_dict[k].sets \o sets),
                                   !.raw_line = @ \o <<NL>> \o Strip(line)]
                          ELSE st.exercises_dict[k]]
                 ELSE Append(st.exercises_dict,
                             [exercise_name |-> FullNameOf(abbr_to_use),
                              abbreviation |-> abbr_to_use,
                              sets |-> sets,
                              total_sets |-> Len(sets),
                              raw_line |-> Strip(line)])
            ELSE st.exercises_dict
        Body(current_indent, matched_abbr, sets, current_exercise, previous_indent) ==
            [exercises_dict |-> Stored(sets, current_exercise),
             current_exercise |->
                 IF current_indent <= previous_indent /\ matched_abbr = NoAbbr /\ sets = <<>>
                 THEN NoAbbr ELSE current_exercise,
             previous_indent |-> previous_indent]
        Matched(current_indent, matched_abbr) ==
            Body(current_indent, matched_abbr, Training_extract_sets(line),
                 IF matched_abbr # NoAbbr THEN matched_abbr ELSE st.current_exercise,
                 IF matched_abbr # NoAbbr THEN current_indent ELSE st.previous_indent)
    IN  Matched(Len(line) - Len(LStrip(line)), Training_matched_abbr(line))

RECURSIVE Training_scan(_, _)
Training_scan(st, lines) ==
    IF lines = <<>> THEN st
    ELSE Training_scan(Training_scan_line(st, lines[1]), Tail(lines))

Training_extract_exercises(text) ==
    Training_scan(Training_scan_start, SplitLines(text)).exercises_dict

\* timestamp_pattern = r'(\d{4}-\d{2}-\d{2}[T\s]\d{2}:\d{2}:\d{2})' tried at i
Training_timestamp_pattern(s, i) ==
    /\ i + 18 <= Len(s)
    /\ \A k \in {0, 1, 2, 3, 5, 6, 8, 9, 11, 12, 14, 15, 17, 18} : IsDigit(s[i + k])
    /\ s[i + 4] = "-" /\ s[i + 7] = "-"
    /\ (s[i + 10] = "T" \/ IsSpace(s[i + 10]))
    /\ s[i + 13] = ":" /\ s[i + 16] = ":"

\* the part of s before the first occurrence of c: s.split(c)[0]
BeforeFirst(s, c) == IF IndexOf(s, c) > 0 THEN SubSeq(s, 1, IndexOf(s, c) - 1) ELSE s

\* created_timestamp.split('.')[0].replace(' ', 'T')
Training_created_for_comparison(created_timestamp) ==
    ReplaceChar(BeforeFirst(created_timestamp, "."), " ", <<"T">>)

\* text[line_start:line_end].strip() for a match that starts at i: from the
\* last '\n' before the match to the first '\n' after it
Training_activity_line(text, i) ==
    LET before == { k \in 1..(i - 1) : text[k] = NL }
        after == { k \in (i + 19)..Len(text) : text[k] = NL }
        line_start == IF before = {} THEN 1
                      ELSE CHOOSE k \in before : \A j \in before : j <= k
        line_end == IF after = {} THEN Len(text) + 1
                    ELSE CHOOSE k \in after : \A j \in after : k <= j
    IN  Strip(SubSeq(text, line_start, line_end - 1))

\* the for loop of _extract_completed_activities over re.finditer
RECURSIVE Training_activities_from(_, _, _)
Training_activities_from(text, i, created_timestamp) ==
    LET Leftmost(j) ==
            (IF SubSeq(text, j, j + 18) # Training_created_for_comparison(created_timestamp)
             THEN <<[timestamp |-> SubSeq(text, j, j + 18),
                     activity |-> Training_activity_line(text, j)]>>
             ELSE <<>>)
            \o Training_activities_from(text, j + 19, created_timestamp)
        Search(starts) ==
            IF starts = {} THEN <<>>
            ELSE Leftmost(CHOOSE k \in starts : \A l \in starts : k <= l)
    IN  Search({ j \in i..Len(text) : Training_timestamp_pattern(text, j) })

WorkoutLogged == <<"W", "o", "r", "k", "o", "u", "t", " ", "l", "o", "g", "g", "e", "d">>

\* _extract_completed_activities, with a fault: the 'Workout logged' entry is
\* added whenever there is a creation timestamp
Training_extract_completed_activities_AlwaysLogged(text, created_timestamp) ==
    LET Completed(activities) ==
            IF created_timestamp # <<>>
            THEN activities \o <<[timestamp |-> created_timestamp, activity |-> WorkoutLogged]>>
            ELSE activities
    IN  Completed(Training_activities_from(text, 1, created_timestamp))

Training_extract_completed_activities(text, created_timestamp) ==
    LET Completed(activities) ==
            IF activities = <<>> /\ created_timestamp # <<>>
            THEN <<[timestamp |-> created_timestamp, activity |-> WorkoutLogged]>>
            ELSE activities
    IN  Completed(Training_activities_from(text, 1, created_timestamp))

Training_parse(n) ==
    IF ~IsDict(n) THEN Raise("ValueError", NotADictionary)
    ELSE LET WorkoutData(text) ==
                 Ok([type |-> "WorkoutData",
                     note_id |-> n.id,
                     title |-> n.title,
                     workout_date |-> n.created,
                     last_updated |-> n.edited,
                     exercises |-> Training_extract_exercises(text),
                     completed_activities |->
                         Training_extract_completed_activities(text, n.created),
                     raw_text |-> text])
         IN  WorkoutData(Training_normalize_checkboxes(n.text))

(***************************************************************************)
(* ParserRegistry (parsers/base.py)                                        *)
(***************************************************************************)
\* the subclasses of NoteParser
ParserClasses ==
    {"HackerNewsParser", "TimeEntryParser", "TrainingParser", "GenericNotesParser"}

\* a class that is no subclass of NoteParser
OtherClasses == {"dict"}

\* parser_class().can_parse(note_data)
NoteParser_can_parse(parser_class, n) ==
    CASE parser_class = "HackerNewsParser" -> HackerNews_can_parse(n)
      [] parser_class = "TimeEntryParser" -> TimeEntry_can_parse(n)
      [] parser_class = "TrainingParser" -> Training_can_parse(n)
      [] parser_class = "GenericNotesParser" -> Generic_can_parse(n)

\* parser_class().parse(note_data)
NoteParser_parse(parser_class, n) ==
    CASE parser_class = "HackerNewsParser" -> HackerNews_parse(n)
      [] parser_class = "TimeEntryParser" -> TimeEntry_parse(n)
      [] parser_class = "TrainingParser" -> Training_parse(n)
      [] parser_class = "GenericNotesParser" -> Generic_parse(n)

\* parser.get_schema(): the schema document of the class, read from
\* schemas/<name>.schema.json.  The document is named by its file; what it
\* asks of a record is SchemaAccepts.
NoteParser_get_schema(parser_class) ==
    CASE parser_class = "HackerNewsParser" -> "hackernews.schema.json"
      [] parser_class = "TimeEntryParser" -> "time_entry.schema.json"
      [] parser_class = "TrainingParser" -> "training.schema.json"
      [] parser_class = "GenericNotesParser" -> "generic_notes.schema.json"

RecordTypeOf(schema) ==
    CASE schema = "hackernews.schema.json" -> "ParsedNote"
      [] schema = "time_entry.schema.json" -> "ParseResult"
      [] schema = "training.schema.json" -> "WorkoutData"
      [] schema = "generic_notes.schema.json" -> "GenericNote"

\* what a schema document asks of a record: the shape its extractor owns,
\* with an id that is a string
SchemaAccepts(schema, record) ==
    /\ record.type = RecordTypeOf(schema)
    /\ record.note_id.type = "str"

\* jsonschema.validate(instance, schema): returns, or raises ValidationError
\* with a message
jsonschema_validate(instance, schema) ==
    IF SchemaAccepts(schema, instance) THEN Ok(<<>>)
    ELSE Raise("ValidationError", <<"is not valid under ", schema>>)

NoSuitableParser == <<"No suitable parser found for the given note data">>

\* get_parser, with a fault: the last class that can parse
RECURSIVE Registry_get_parser_Last(_, _)
Registry_get_parser_Last(ps, n) ==
    IF ps = <<>> THEN Raise("ValueError", NoSuitableParser)
    ELSE IF NoteParser_can_parse(ps[Len(ps)], n) THEN Ok(ps[Len(ps)])
    ELSE Registry_get_parser_Last(SubSeq(ps, 1, Len(ps) - 1), n)

\* get_parser, with a fault: the class the last parse call chose is kept and
\* tried before the list
Registry_get_parser_LastUsedFirst(ps, n) ==
    LET matching == { i \in 1..Len(ps) : NoteParser_can_parse(ps[i], n) }
    IN  IF /\ result.parser # ""
           /\ \E i \in 1..Len(ps) : ps[i] = result.parser
           /\ NoteParser_can_parse(result.parser, n)
        THEN Ok(result.parser)
        ELSE IF matching = {} THEN Raise("ValueError", NoSuitableParser)
        ELSE Ok(ps[CHOOSE i \in matching : \A j \in matching : i <= j])

\* get_parser: the for loop over self._parsers; the result is an instance of
\* the class, named by the class
RECURSIVE Registry_get_parser(_, _)
Registry_get_parser(ps, n) ==
    IF ps = <<>> THEN Raise("ValueError", NoSuitableParser)
    ELSE IF NoteParser_can_parse(ps[1], n) THEN Ok(ps[1])
    ELSE Registry_get_parser(Tail(ps), n)

SchemaViolation(message) ==
    Raise("ValueError", <<"Parsed data does not conform to schema: ">> \o message)

\* parse, with a fault: the ValidationError is swallowed
Registry_parse_Unchecked(ps, n) ==
    LET Parsed(parser_class, parsed_data) ==
            [out |-> parsed_data, parser |-> parser_class,
             steps |-> <<"get_parser", "parse", "get_schema", "validate">>]
        Selected(parser) ==
            IF parser.kind = "error"
            THEN [out |-> parser, parser |-> "", steps |-> <<"get_parser">>]
            ELSE Parsed(parser.value, NoteParser_parse(parser.value, n))
    IN  Selected(Registry_get_parser(ps, n))

\* parse: what it returns or raises (out), the class get_parser chose, and the
\* calls it made, in order
Registry_parse(ps, n) ==
    LET Validated(parser_class, parsed_data, validation) ==
            IF validation.kind = "error"
            THEN [out |-> SchemaViolation(validation.message),
                  parser |-> parser_class,
                  steps |-> <<"get_parser", "parse", "get_schema", "validate">>]
            ELSE [out |-> Ok(parsed_data.value), parser |-> parser_class,
                  steps |-> <<"get_parser", "parse", "get_schema", "validate">>]
        Parsed(parser_class, parsed_data) ==
            IF parsed_data.kind = "error"
            THEN [out |-> parsed_data, parser |-> parser_class,
                  steps |-> <<"get_parser", "parse">>]
            ELSE Validated(parser_class, parsed_data,
                           jsonschema_validate(parsed_data.value,
                                               NoteParser_get_schema(parser_class)))
        Selected(parser) ==
            IF parser.kind = "error"
            THEN [out |-> parser, parser |-> "", steps |-> <<"get_parser">>]
            ELSE Parsed(parser.value, NoteParser_parse(parser.value, n))
    IN  Selected(Registry_get_parser(ps, n))

\* register, with a fault: the class goes to the front
Registry_register_Front(ps, parser_class) ==
    IF parser_class \notin ParserClasses
    THEN [parsers |-> ps,
          out |-> Raise("TypeError", <<parser_class, " must be a subclass of NoteParser">>)]
    ELSE [parsers |-> <<parser_class>> \o ps, out |-> Ok(<<>>)]

\* register: the list afterwards and what the call returns or raises
Registry_register(ps, parser_class) ==
    IF parser_class \notin ParserClasses
    THEN [parsers |-> ps,
          out |-> Raise("TypeError", <<parser_class, " must be a subclass of NoteParser">>)]
    ELSE [parsers |-> Append(ps, parser_class), out |-> Ok(<<>>)]

\* list.remove(x): the first occurrence goes
RECURSIVE ListRemove(_, _)
ListRemove(ps, x) ==
    IF ps = <<>> THEN <<>>
    ELSE IF ps[1] = x THEN Tail(ps)
    ELSE <<ps[1]>> \o ListRemove(Tail(ps), x)

\* unregister: the list afterwards
Registry_unregister(ps, parser_class) ==
    IF \E k \in 1..Len(ps) : ps[k] = parser_class
    THEN ListRemove(ps, parser_class) ELSE ps

(***************************************************************************)
(* Inputs of the TimeEntry specification: texts of at most MaxLines lines  *)
(* drawn from a pool that holds 3- and 4-digit codes, a glyph, invalid     *)
(* hours and minutes, 2- and 5-digit numbers, a code in non-ASCII digits,  *)
(* white-space variations and a blank line.                                *)
(***************************************************************************)
TimeEntryLinePool ==
    { <<"1", "4", "2", "0", " ", "L">>,
      <<"0", "6", "3", "7", " ", "W">>,
      <<"6", "3", "7", " ", "w">>,
      <<"u2610", " ", "9", "5", "9", " ", "c">>,
      <<"2", "5", "6", "0", " ", "x">>,
      <<"1", "2", "7", "0", " ", "y">>,
      <<"1", "2", "3", "4", "5", " ", "z">>,
      <<"6", "7", " ", "f">>,
      <<"u0663", "u0663", "u0663", " ", "a">>,
      <<" ", "8", "4", "5", "\t", "b", " ">>,
      <<>> }

TextsOf(pool, maxLines) ==
    { JoinLines(ls) : ls \in UNION { [1..m -> pool] : m \in 0..maxLines } }

CreatedIso ==
    <<"2", "0", "2", "4", "-", "0", "1", "-", "1", "5", "T",
      "0", "6", ":", "3", "7", ":", "0", "0">>

NonDictNotes == { NonDictNote("list"), NonDictNote("str"), NonDictNote("null") }

TimeEntryNotes ==
    { DictNote(StrId(<<"n">>), <<"t">>, text, <<>>, CreatedIso, <<>>) :
        text \in TextsOf(TimeEntryLinePool, MaxLines) }
    \cup { DictNote(StrId(<<"n">>), <<"t">>, text, <<>>, <<>>, <<>>) :
             text \in TextsOf(TimeEntryLinePool, 1) }
    \cup NonDictNotes

\* what a call left behind: the operation, its argument, what it returned or
\* raised, and for Registry.parse the class chosen and the calls made
Result(op, arg, out, parser, steps) ==
    [op |-> op, arg |-> arg, out |-> out, parser |-> parser, steps |-> steps]

NoResult == Result("none", "", None, "", <<>>)

BatchIdle ==
    /\ files = <<>>
    /\ idx = 0
    /\ processed_count = 0
    /\ attempts = <<>>

InitTimeEntry ==
    /\ parsers = <<>>
    /\ note \in TimeEntryNotes
    /\ result = NoResult
    /\ remembered = None
    /\ BatchIdle

\* a caller asks TimeEntryParser().can_parse(note)
TimeEntryCanParse ==
    /\ result' = Result("can_parse", "TimeEntryParser",
                        Ok(TimeEntry_can_parse(note)), "", <<>>)
    /\ UNCHANGED <<parsers, note, remembered, files, idx, processed_count, attempts>>

\* a caller asks TimeEntryParser().parse(note)
TimeEntryParse ==
    /\ result' = Result("extract", "TimeEntryParser", TimeEntry_parse(note), "", <<>>)
    /\ UNCHANGED <<parsers, note, remembered, files, idx, processed_count, attempts>>

NextTimeEntry == TimeEntryCanParse \/ TimeEntryParse

SpecTimeEntry == InitTimeEntry /\ [][NextTimeEntry]_vars

(***************************************************************************)
(* What the claims about TimeEntry speak of, stated from the text alone.   *)
(***************************************************************************)
\* hours and minutes of a 3- or 4-digit code: 1+2 or 2+2 digits
CodeHours(c) == IntOf(SubSeq(c, 1, Len(c) - 2))
CodeMinutes(c) == IntOf(SubSeq(c, Len(c) - 1, Len(c)))

\* the line matches the time-code pattern and its code is valid
IsValidTimeLine(line) ==
    LET m == TimeEntry_TIME_CODE_PATTERN(Strip(line))
    IN  /\ m.matched
        /\ CodeHours(m.group1) \in 0..23
        /\ CodeMinutes(m.group1) \in 0..59

\* the lines of the text that match with a valid code, in line order
ValidTimeLines(text) == SelectSeq(SplitLines(text), IsValidTimeLine)

\* minutes since midnight of a canonical "HH:MM"
MinuteOfDay(t) == 60 * IntOf(SubSeq(t, 1, 2)) + IntOf(SubSeq(t, 4, 5))

Occurrences(seq, x) == Cardinality({ i \in 1..Len(seq) : seq[i] = x })

Extracted == result.op = "extract" /\ result.out.kind = "ok"

\* C8: TimeEntry.can_parse(note) is true iff at least two lines of the text
\* match the time-code pattern with a valid code, which is exactly when
\* TimeEntry.parse(note) produces at least two time entries
C8_CanParseIffTwoValidLines ==
    /\ result.op = "can_parse" =>
          result.out.value = (IsDict(note) /\ Len(ValidTimeLines(note.text)) >= 2)
    /\ Extracted =>
          (TimeEntry_can_parse(note) <=> Len(result.out.value.time_entries) >= 2)

\* can_parse has answered true on a text that also holds a line whose number
\* is not a valid code
C8_Witness ==
    /\ result.op = "can_parse"
    /\ result.out.value = TRUE
    /\ \E i \in 1..Len(SplitLines(note.text)) :
          LET l == SplitLines(note.text)[i]
          IN  DigitRun(l, 1) >= 2 /\ ~IsValidTimeLine(l)

\* C9: parse emits exactly one entry per line that matches with a valid code
\* (a permutation of those lines), in non-decreasing order of time of day:
\* the order of the "HH:MM" strings is the order of hours*60+minutes
C9_OneEntryPerLineChronological ==
    Extracted =>
        LET es == result.out.value.time_entries
            ls == ValidTimeLines(note.text)
            raw == [i \in 1..Len(es) |-> es[i].raw_line]
            stripped == [i \in 1..Len(ls) |-> Strip(ls[i])]
        IN  /\ Len(es) = Len(ls)
            /\ \A i \in 1..Len(ls) :
                  Occurrences(raw, stripped[i]) = Occurrences(stripped, stripped[i])
            /\ \A i, j \in 1..Len(es) :
                  i < j => MinuteOfDay(es[i].time) <= MinuteOfDay(es[j].time)

NonDecreasing(times) ==
    \A i, j \in 1..Len(times) : i < j => ~StrLess(times[j], times[i])

\* the canonical times of the valid lines, in line order
OriginalTimes(text) ==
    LET ls == ValidTimeLines(text)
    IN  [i \in 1..Len(ls) |->
            TimeEntry_parse_time_code(TimeEntry_TIME_CODE_PATTERN(Strip(ls[i])).group1)]

\* C10: parse produces at most one warning; none exactly when the times in
\* line order are already in the (non-decreasing) order of the sort; the one
\* warning carries the original order and the sorted order
C10_OneWarningIffOutOfOrder ==
    Extracted =>
        LET ws == result.out.value.warnings
            original == OriginalTimes(note.text)
            sorted == TimesOf(result.out.value.time_entries)
        IN  /\ Len(ws) <= 1
            /\ (ws = <<>>) <=> NonDecreasing(original)
            /\ (ws = <<>>) <=> (original = sorted)
            /\ ws # <<>> =>
                  /\ ws[1].original_order = original
                  /\ ws[1].sorted_order = sorted

\* parse has warned about a text of three entries that are out of order
C10_Witness ==
    /\ Extracted
    /\ Len(result.out.value.warnings) = 1
    /\ Len(result.out.value.time_entries) = 3


(***************************************************************************)
(* The registry: every operation of ParserRegistry on a list of at most    *)
(* MaxParsers classes, and the direct calls of an extractor, on a note the *)
(* caller holds.                                                           *)
(***************************************************************************)
StrLabel(s) == [type |-> "str", value |-> s]

HNItemUrl == <<"h", "t", "t", "p", "s">> \o HNHost \o <<"7">>

TwoTimeLines ==
    <<"0", "6", "3", "7", " ", "W", "\n", "1", "4", "2", "0", " ", "L">>

WorkoutLine == <<"B", "p", " ", "3", "x", "8", "x", "1", "0", "0">>

WorkoutWithTimes ==
    <<"0", "6", "3", "7", " ">> \o WorkoutLine \o <<"\n">>
    \o <<"1", "4", "2", "0", " ", "S", "q", " ", "3", "x", "5", "x", "8", "0">>

PlainText == <<"h", "e", "l", "l", "o">>

EmptyDict == DictNote(StrId(<<>>), <<>>, <<>>, <<>>, <<>>, <<>>)

RegistryNotes ==
    { NonDictNote("list"), NonDictNote("null"),
      EmptyDict,
      DictNote(StrId(<<"a">>), <<"t">>, TwoTimeLines, <<>>, CreatedIso, <<>>),
      DictNote(StrId(<<"b">>), <<"t">>, WorkoutLine, <<>>, CreatedIso, CreatedIso),
      DictNote(StrId(<<"c">>), <<"t">>, PlainText, <<StrLabel(DOWNLOAD_HN_LABEL)>>, <<>>, <<>>),
      DictNote(StrId(<<"d">>), HNItemUrl, TwoTimeLines, <<>>, <<>>, <<>>),
      DictNote(StrId(<<"e">>), <<"t">>, PlainText, <<>>, <<>>, <<>>),
      DictNote(IntId(<<"7">>), <<"t">>, WorkoutWithTimes, <<>>, CreatedIso, <<>>),
      DictNote(IntId(<<"8">>), <<"t">>, PlainText, <<>>, <<>>, <<>>) }

Init ==
    /\ parsers = <<>>
    /\ note \in RegistryNotes
    /\ result = NoResult
    /\ remembered = None
    /\ BatchIdle

Register(parser_class) ==
    /\ Len(parsers) < MaxParsers
    /\ LET r == Registry_register(parsers, parser_class)
       IN  /\ parsers' = r.parsers
           /\ result' = Result("register", parser_class, r.out, "", <<>>)
    /\ UNCHANGED <<note, remembered, files, idx, processed_count, attempts>>

Unregister(parser_class) ==
    /\ parsers' = Registry_unregister(parsers, parser_class)
    /\ result' = Result("unregister", parser_class, Ok(<<>>), "", <<>>)
    /\ UNCHANGED <<note, remembered, files, idx, processed_count, attempts>>

Clear ==
    /\ parsers' = <<>>
    /\ result' = Result("clear", "", Ok(<<>>), "", <<>>)
    /\ UNCHANGED <<note, remembered, files, idx, processed_count, attempts>>

GetAllParsers ==
    /\ result' = Result("get_all_parsers", "", Ok(parsers), "", <<>>)
    /\ UNCHANGED <<parsers, note, remembered, files, idx, processed_count, attempts>>

GetParser ==
    /\ result' = Result("get_parser", "", Registry_get_parser(parsers, note), "", <<>>)
    /\ UNCHANGED <<parsers, note, remembered, files, idx, processed_count, attempts>>

Parse ==
    /\ LET r == Registry_parse(parsers, note)
       IN  result' = Result("parse", "", r.out, r.parser, r.steps)
    /\ UNCHANGED <<parsers, note, remembered, files, idx, processed_count, attempts>>

\* a caller asks parser_class().can_parse(note)
CanParse(parser_class) ==
    /\ result' = Result("can_parse", parser_class,
                        Ok(NoteParser_can_parse(parser_class, note)), "", <<>>)
    /\ UNCHANGED <<parsers, note, remembered, files, idx, processed_count, attempts>>

\* a caller asks parser_class().parse(note)
Extract(parser_class) ==
    /\ result' = Result("extract", parser_class, NoteParser_parse(parser_class, note), "", <<>>)
    /\ UNCHANGED <<parsers, note, remembered, files, idx, processed_count, attempts>>

Next ==
    \/ \E parser_class \in ParserClasses \cup OtherClasses : Register(parser_class)
    \/ \E parser_class \in ParserClasses : Unregister(parser_class)
    \/ Clear
    \/ GetAllParsers
    \/ GetParser
    \/ Parse
    \/ \E parser_class \in ParserClasses : CanParse(parser_class)
    \/ \E parser_class \in ParserClasses : Extract(parser_class)

Spec == Init /\ [][Next]_vars

\* the positions of the registered classes that can parse the note
Matching == { i \in 1..Len(parsers) : NoteParser_can_parse(parsers[i], note) }

Registered(parser_class) == \E i \in 1..Len(parsers) : parsers[i] = parser_class

AllSteps == <<"get_parser", "parse", "get_schema", "validate">>

\* C1: get_parser returns the first class in registration order whose
\* can_parse(note) is true, never a later one, and raises "No suitable parser
\* found" exactly when no registered class can parse the note
C1_GetParserFirstMatch ==
    result.op = "get_parser" =>
        /\ (result.out.kind = "error") <=> (Matching = {})
        /\ result.out.kind = "error" => result.out = Raise("ValueError", NoSuitableParser)
        /\ result.out.kind = "ok" =>
              \E i \in Matching :
                  /\ result.out.value = parsers[i]
                  /\ \A j \in Matching : i <= j

\* get_parser has chosen between two different registered classes that both
\* can parse the note
C1_Witness ==
    /\ result.op = "get_parser"
    /\ result.out.kind = "ok"
    /\ \E i, j \in Matching : i < j /\ parsers[i] # parsers[j]

\* C2: parse calls get_parser, the extractor's parse, then validates against
\* the schema of the chosen class, in that order; it returns a record only
\* if the schema accepts it, and where the schema rejects the extracted
\* record it raises the schema violation with the validator's message
C2_ParseReturnsOnlyValidRecords ==
    result.op = "parse" =>
        /\ result.out.kind = "ok" =>
              /\ result.steps = AllSteps
              /\ Matching # {}
              /\ result.parser = parsers[CHOOSE i \in Matching : \A j \in Matching : i <= j]
              /\ result.out.value = NoteParser_parse(result.parser, note).value
              /\ SchemaAccepts(NoteParser_get_schema(result.parser), result.out.value)
        /\ Matching # {} =>
              LET chosen == parsers[CHOOSE i \in Matching : \A j \in Matching : i <= j]
                  extracted == NoteParser_parse(chosen, note)
                  schema == NoteParser_get_schema(chosen)
              IN  (extracted.kind = "ok" /\ ~SchemaAccepts(schema, extracted.value)) =>
                      /\ result.steps = AllSteps
                      /\ result.out =
                            SchemaViolation(jsonschema_validate(extracted.value, schema).message)

\* parse has rejected an extracted record that its schema does not accept
C2_Witness ==
    /\ result.op = "parse"
    /\ result.steps = AllSteps
    /\ result.out.kind = "error"

\* C3: register appends the class at the end of the list and leaves the
\* entries before it as they were; a class that is no NoteParser subclass
\* raises TypeError and the list stays as it was
C3_RegisterAppendsOrRejects ==
    [][ result'.op = "register" =>
           IF result'.arg \in ParserClasses
           THEN /\ parsers' = parsers \o <<result'.arg>>
                /\ result'.out.kind = "ok"
           ELSE /\ parsers' = parsers
                /\ result'.out.kind = "error"
                /\ result'.out.type = "TypeError" ]_vars

\* register has rejected a class while the list held two classes
C3_Witness ==
    /\ result.op = "register"
    /\ result.out.kind = "error"
    /\ Len(parsers) = 2

\* C5: Generic.can_parse is true for every dict, the empty one too, and false
\* for every other value; so with GenericNotesParser registered neither
\* get_parser nor parse raises "No suitable parser found" for a dict
C5_GenericHandlesEveryDict ==
    /\ (result.op = "can_parse" /\ result.arg = "GenericNotesParser") =>
          result.out.value = IsDict(note)
    /\ (result.op \in {"get_parser", "parse"} /\ IsDict(note)
          /\ Registered("GenericNotesParser")) =>
          ~(result.out.kind = "error" /\ result.out.message = NoSuitableParser)

\* get_parser has fallen through to GenericNotesParser, registered last, for
\* the empty dict
C5_Witness ==
    /\ result.op = "get_parser"
    /\ note = EmptyDict
    /\ Len(parsers) = 2
    /\ parsers[2] = "GenericNotesParser"
    /\ parsers[1] # "GenericNotesParser"
    /\ result.out = Ok("GenericNotesParser")

\* C7: a note that is no dict is rejected as an invalid input shape: every
\* can_parse is false, every extractor's parse raises "note_data must be a
\* dictionary", and so does Registry.parse
C7_NonDictIsInvalidInputShape ==
    ~IsDict(note) =>
        /\ result.op = "can_parse" => result.out.value = FALSE
        /\ result.op = "extract" => result.out = Raise("ValueError", NotADictionary)
        /\ result.op = "parse" => result.out = Raise("ValueError", NotADictionary)

\* C7 as the code has it: for a note that is no dict every can_parse is
\* false and every extractor's parse raises "note_data must be a dictionary",
\* but Registry.parse calls no extractor and raises "No suitable parser found"
C7_NonDictFindsNoParser ==
    ~IsDict(note) =>
        /\ result.op = "can_parse" => result.out.value = FALSE
        /\ result.op = "extract" => result.out = Raise("ValueError", NotADictionary)
        /\ result.op = "parse" =>
              /\ result.out = Raise("ValueError", NoSuitableParser)
              /\ result.steps = <<"get_parser">>

\* Registry.parse has been called on a note that is no dict with two classes
\* registered, GenericNotesParser among them
C7_Witness ==
    /\ ~IsDict(note)
    /\ result.op = "parse"
    /\ Len(parsers) = 2
    /\ Registered("GenericNotesParser")


(***************************************************************************)
(* Repeated parse calls on one registry.  The registry is any list that    *)
(* register calls can build and no call changes it afterwards; the caller  *)
(* parses notes in any order and may keep the outcome of a call to compare *)
(* it with the outcome of a later call on the same note.                   *)
(***************************************************************************)
RECURSIVE ListsUpTo(_, _)
ListsUpTo(S, n) ==
    IF n = 0 THEN { <<>> }
    ELSE LET shorter == ListsUpTo(S, n - 1)
         IN  shorter \cup { Append(l, x) : l \in { m \in shorter : Len(m) = n - 1 }, x \in S }

IdemNotes ==
    { NonDictNote("list"),
      DictNote(StrId(<<"a">>), <<"t">>, TwoTimeLines, <<>>, CreatedIso, <<>>),
      DictNote(StrId(<<"d">>), HNItemUrl, TwoTimeLines, <<>>, <<>>, <<>>),
      DictNote(IntId(<<"7">>), <<"t">>, WorkoutWithTimes, <<>>, CreatedIso, <<>>) }

InitIdem ==
    /\ parsers \in ListsUpTo(ParserClasses, MaxParsers)
    /\ note \in IdemNotes
    /\ result = NoResult
    /\ remembered = None
    /\ BatchIdle

\* the caller turns to another note
LoadNote(n) ==
    /\ n # note
    /\ note' = n
    /\ UNCHANGED <<parsers, result, remembered, files, idx, processed_count, attempts>>

\* registry.parse(note); the caller keeps the outcome
ParseAndRemember ==
    /\ LET r == Registry_parse(parsers, note)
       IN  /\ result' = Result("parse", note, r.out, r.parser, r.steps)
           /\ remembered' = [kind |-> "call", note |-> note, out |-> r.out, others |-> FALSE]
    /\ UNCHANGED <<parsers, note, files, idx, processed_count, attempts>>

\* registry.parse(note) after a call whose outcome the caller has kept
ParseAgain ==
    /\ remembered.kind = "call"
    /\ LET r == Registry_parse(parsers, note)
       IN  result' = Result("parse", note, r.out, r.parser, r.steps)
    /\ remembered' = [remembered EXCEPT !.others = @ \/ note # remembered.note]
    /\ UNCHANGED <<parsers, note, files, idx, processed_count, attempts>>

NextIdem ==
    \/ \E n \in IdemNotes : LoadNote(n)
    \/ ParseAndRemember
    \/ ParseAgain

SpecIdem == InitIdem /\ [][NextIdem]_vars

JsonFile(read, note_data, write) == [read |-> read, note |-> note_data, write |-> write]

FilePool ==
    { JsonFile("ok", DictNote(StrId(<<"a">>), <<"t">>, TwoTimeLines, <<>>, CreatedIso, <<>>), "ok"),
      JsonFile("ok", DictNote(StrId(<<"a">>), <<"t">>, TwoTimeLines, <<>>, CreatedIso, <<>>), "OSError"),
      JsonFile("OSError", EmptyDict, "ok"),
      JsonFile("JSONDecodeError", EmptyDict, "ok"),
      JsonFile("ok", DictNote(StrId(<<"e">>), <<"t">>, PlainText, <<>>, <<>>, <<>>), "ok"),
      JsonFile("ok", DictNote(IntId(<<"7">>), <<"t">>, WorkoutWithTimes, <<>>, CreatedIso, <<>>), "ok"),
      JsonFile("ok", NonDictNote("list"), "ok") }

\* process_json_file, with a fault: there is no except clause
process_json_file_NoExcept(file, registry) ==
    IF file.read # "ok" THEN Raise(file.read, <<>>)
    ELSE LET parsed_results == Registry_parse(registry, file.note).out
         IN  IF parsed_results.kind = "error" THEN parsed_results
             ELSE IF file.write # "ok" THEN Raise(file.write, <<>>)
             ELSE Ok(TRUE)

\* process_json_file: True, or False where the except clause caught an error
\* of open, json.load, registry.parse, or of writing the output file
process_json_file(file, registry) ==
    IF file.read # "ok" THEN Ok(FALSE)
    ELSE LET parsed_results == Registry_parse(registry, file.note).out
         IN  IF parsed_results.kind = "error" THEN Ok(FALSE)
             ELSE IF file.write # "ok" THEN Ok(FALSE)
             ELSE Ok(TRUE)

\* the registry of main(), with a fault: TrainingParser is registered before
\* TimeEntryParser
MainRegistry_TrainingFirst ==
    LET r1 == Registry_register(<<>>, "HackerNewsParser").parsers
        r2 == Registry_register(r1, "TrainingParser").parsers
    IN  Registry_register(r2, "TimeEntryParser").parsers

\* the registry of main(): three register calls on an empty registry
MainRegistry ==
    LET r1 == Registry_register(<<>>, "HackerNewsParser").parsers
        r2 == Registry_register(r1, "TimeEntryParser").parsers
    IN  Registry_register(r2, "TrainingParser").parsers

InitBatch ==
    /\ parsers = MainRegistry
    /\ files \in ListsUpTo(FilePool, MaxFiles)
    /\ idx = 0
    /\ processed_count = 0
    /\ attempts = <<>>
    /\ note = None
    /\ result = NoResult
    /\ remembered = None

\* an exception has left process_json_file and ended main()
Aborted == \E i \in 1..Len(attempts) : attempts[i].outcome.kind = "error"

\* main() found no JSON file and returns
MainNoFiles ==
    /\ files = <<>>
    /\ result.op = "none"
    /\ result' = Result("no_files", "", Ok(<<>>), "", <<>>)
    /\ UNCHANGED <<parsers, note, remembered, files, idx, processed_count, attempts>>

\* the for loop of main() goes on: a file is left and main() has not ended
LoopGoesOn == idx < Len(files) /\ ~Aborted

\* one iteration of the for loop of main()
MainLoopStep ==
    /\ LoopGoesOn
    /\ LET outcome == process_json_file(files[idx + 1], parsers)
       IN  /\ attempts' = Append(attempts, [file |-> idx + 1, outcome |-> outcome])
           /\ processed_count' =
                 IF outcome.kind = "ok" /\ outcome.value
                 THEN processed_count + 1
                 ELSE processed_count
           /\ result' = Result("process_json_file", "", outcome, "", <<>>)
    /\ idx' = idx + 1
    /\ UNCHANGED <<parsers, note, remembered, files>>

\* the report after the loop: "Processed {processed_count}/{len(json_files)}"
MainReport ==
    /\ files # <<>>
    /\ idx = Len(files)
    /\ ~Aborted
    /\ result.op # "report"
    /\ result' = Result("report", "", Ok(<<processed_count, Len(files)>>), "", <<>>)
    /\ UNCHANGED <<parsers, note, remembered, files, idx, processed_count, attempts>>

NextBatch == MainNoFiles \/ MainLoopStep \/ MainReport

SpecBatch == InitBatch /\ [][NextBatch]_vars

\* the file can be read, parsed to a record its schema accepts, and written
FileSucceeds(file) ==
    /\ file.read = "ok"
    /\ Registry_parse(parsers, file.note).out.kind = "ok"
    /\ file.write = "ok"

\* C6: the loop attempts the files one by one, each once; no failure of a
\* file ends the loop: while a file is left the loop goes on to it; the
\* count is the number of files that succeeded, between 0 and the number of
\* files, and the report gives it after every file has been attempted
C6_BatchToleratesFailures ==
    /\ Len(attempts) = idx
    /\ \A i \in 1..Len(attempts) : attempts[i].file = i
    /\ ~Aborted
    /\ idx < Len(files) => LoopGoesOn
    /\ processed_count = Cardinality({ i \in 1..idx : FileSucceeds(files[i]) })
    /\ 0 <= processed_count /\ processed_count <= Len(files)
    /\ result.op = "report" =>
          /\ Len(attempts) = Len(files)
          /\ result.out.value =
                <<Cardinality({ i \in 1..Len(files) : FileSucceeds(files[i]) }), Len(files)>>

\* the report counts one file of three: the first failed, the second
\* succeeded, the third failed
C6_Witness ==
    /\ result.op = "report"
    /\ Len(files) = 3
    /\ ~FileSucceeds(files[1])
    /\ FileSucceeds(files[2])
    /\ ~FileSucceeds(files[3])
    /\ processed_count = 1

(***************************************************************************)
(* The time code alone: _is_valid_time_code and _parse_time_code on the    *)
(* code of a line, for every string of 3 or 4 characters that \d matches.  *)
(***************************************************************************)
TimeCodes == UNION { [1..n -> AsciiDigits \cup {"u0663"}] : n \in {3, 4} }

\* match.group(1) of the one line of the note
TimeCodeOf(n) == TimeEntry_TIME_CODE_PATTERN(Strip(n.text)).group1

InitTimeCode ==
    /\ parsers = <<>>
    /\ note \in { DictNote(StrId(<<"n">>), <<"t">>, time_code \o <<" ", "x">>,
                           <<>>, <<>>, <<>>) : time_code \in TimeCodes }
    /\ result = NoResult
    /\ remembered = None
    /\ BatchIdle

\* self._is_valid_time_code(time_code)
IsValidTimeCode(time_code) ==
    /\ result' = Result("is_valid_time_code", time_code,
                        Ok(TimeEntry_is_valid_time_code(time_code)), "", <<>>)
    /\ UNCHANGED <<parsers, note, remembered, files, idx, processed_count, attempts>>

\* self._parse_time_code(time_code)
ParseTimeCode(time_code) ==
    /\ result' = Result("parse_time_code", time_code,
                        Ok(TimeEntry_parse_time_code(time_code)), "", <<>>)
    /\ UNCHANGED <<parsers, note, remembered, files, idx, processed_count, attempts>>

NextTimeCode ==
    \/ IsValidTimeCode(TimeCodeOf(note))
    \/ ParseTimeCode(TimeCodeOf(note))

SpecTimeCode == InitTimeCode /\ [][NextTimeCode]_vars

\* C11: a 3-digit code reads as 1 hour digit + 2 minute digits, a 4-digit
\* code as 2 + 2; the code is valid iff hours are in 0..23 and minutes in
\* 0..59; the canonical form of a valid code is those hours and minutes
\* written as two decimal digits each around a colon, so dMM and 0dMM give
\* the same canonical time, and its HH is in 00..23 and its MM in 00..59
C11_TimeCodeCanonical ==
    LET time_code == result.arg
        TwoDigits(k) ==
            << CHOOSE c \in AsciiDigits : DigitValue(c) = k \div 10,
               CHOOSE c \in AsciiDigits : DigitValue(c) = k % 10 >>
        valid == CodeHours(time_code) \in 0..23 /\ CodeMinutes(time_code) \in 0..59
    IN  /\ result.op = "is_valid_time_code" => result.out.value = valid
        /\ result.op = "parse_time_code" /\ valid =>
              /\ result.out.value = TwoDigits(CodeHours(time_code)) \o <<":">>
                                    \o TwoDigits(CodeMinutes(time_code))
              /\ Len(time_code) = 3 =>
                    result.out.value = TimeEntry_parse_time_code(<<"0">> \o time_code)
              /\ IntOf(SubSeq(result.out.value, 1, 2)) \in 0..23
              /\ IntOf(SubSeq(result.out.value, 4, 5)) \in 0..59

(***************************************************************************)
(* TrainingParser alone: can_parse, and parse with the loop of             *)
(* _extract_exercises taken one line at a time.  The notes are texts of at *)
(* most MaxLines lines: workout lines (a key with two sets, a key alone in *)
(* lower case, indented sets behind a word that only contains a key, two   *)
(* keys on one line in both orders, a blank line, a set-triple broken over *)
(* two lines behind a checkbox glyph) and lines with embedded timestamps   *)
(* under every form of the creation timestamp.                             *)
(***************************************************************************)
WorkoutLinePool ==
    { <<"B", "p", " ", "3", "x", "8", "x", "1", "0", "0", " ",
        "4", "x", "6", "x", "1", "1", "0">>,
      <<"b", "p">>,
      <<" ", "D", "i", "p", "s", " ", "5", "u00d7", "5", "u00d7", "6", "0", ".", "5">>,
      <<"R", "o", "w", " ", "a", "n", "d", " ", "P", "r", "e", "s", "s", " ",
        "3", "x", "8", "x", "1", "0", "0">>,
      <<"P", "r", "e", "s", "s", " ", "a", "n", "d", " ", "R", "o", "w", " ",
        "3", "x", "8", "x", "1", "0", "0">>,
      <<>>,
      <<"u2610", " ", "3", "x", "8", "x">>,
      <<"7", "0">> }

OtherDayIso ==
    <<"2", "0", "2", "4", "-", "0", "1", "-", "1", "6", "T",
      "0", "7", ":", "0", "0", ":", "0", "0">>

ActivityLinePool ==
    { CreatedIso \o <<" ", "m", "a", "d", "e">>,
      ReplaceChar(CreatedIso, "T", <<" ">>) \o <<" ", "m", "a", "d", "e">>,
      <<"r", "u", "n", " ">> \o OtherDayIso \o <<" ", "o", "k">>,
      SubSeq(OtherDayIso, 1, 10),
      SubSeq(OtherDayIso, 12, 19) \o <<" ", "x">> }

\* timestamps.created as the export writes it: with T, with a space, with a
\* fraction of a second, or absent
CreatedForms ==
    { CreatedIso, ReplaceChar(CreatedIso, "T", <<" ">>), CreatedIso \o <<".", "5">>, <<>> }

TrainingNotes ==
    { DictNote(StrId(<<"n">>), <<"t">>, text, <<>>, CreatedIso, <<>>) :
        text \in TextsOf(WorkoutLinePool, MaxLines) }
    \cup { DictNote(StrId(<<"n">>), <<"t">>, text, <<>>, created, <<>>) :
             text \in TextsOf(ActivityLinePool, MaxLines), created \in CreatedForms }
    \cup NonDictNotes

InitTraining ==
    /\ parsers = <<>>
    /\ note \in TrainingNotes
    /\ result = NoResult
    /\ remembered = Training_scan_start
    /\ BatchIdle

\* lines of _extract_exercises, for the text parse hands it
TrainingLines == SplitLines(Training_normalize_checkboxes(note.text))

\* a caller asks TrainingParser().can_parse(note)
TrainingCanParse ==
    /\ result.op = "none"
    /\ idx = 0
    /\ result' = Result("can_parse", "TrainingParser",
                        Ok(Training_can_parse(note)), "", <<>>)
    /\ UNCHANGED <<parsers, note, remembered, files, idx, processed_count, attempts>>

\* TrainingParser().parse(note) is in _extract_exercises: one iteration of
\* the for loop over the lines
TrainingScanLine ==
    /\ result.op = "none"
    /\ IsDict(note)
    /\ idx < Len(TrainingLines)
    /\ remembered' = Training_scan_line(remembered, TrainingLines[idx + 1])
    /\ idx' = idx + 1
    /\ UNCHANGED <<parsers, note, result, files, processed_count, attempts>>

\* TrainingParser().parse(note) returns, after the loop, or raises at once
TrainingParse ==
    /\ result.op = "none"
    /\ IsDict(note) => idx = Len(TrainingLines)
    /\ result' = Result("extract", "TrainingParser", Training_parse(note), "", <<>>)
    /\ UNCHANGED <<parsers, note, remembered, files, idx, processed_count, attempts>>

NextTraining == TrainingCanParse \/ TrainingScanLine \/ TrainingParse

SpecTraining == InitTraining /\ [][NextTraining]_vars

\* C12: Training.can_parse(note) is true iff the note is a dict, its text is
\* not empty, and the checkbox-normalized text holds somewhere a word-bounded
\* key of the abbreviation table, in any case, and somewhere a set-triple
\* (digits, a times sign, digits, a times sign, digits, with optional white
\* space around the signs); the two need not share a line
C12_CanParseIffKeyAndTriple ==
    LET text == Training_normalize_checkboxes(note.text)
        Spaces(a, b) == \A k \in a..b : IsSpace(text[k])
        Digits(a, b) == \A k \in a..b : IsDigit(text[k])
        HasKey == \E k \in 1..Len(EXERCISE_PATTERNS) :
                      Training_abbr_search(EXERCISE_PATTERNS[k].abbr, text)
        HasTriple ==
            \E x1, x2 \in 1..Len(text) :
                /\ x1 < x2
                /\ IsTimesSign(text, x1)
                /\ IsTimesSign(text, x2)
                /\ \E p \in 1..(x1 - 1) : IsDigit(text[p]) /\ Spaces(p + 1, x1 - 1)
                /\ \E p, q \in (x1 + 1)..(x2 - 1) :
                      p <= q /\ Spaces(x1 + 1, p - 1) /\ Digits(p, q) /\ Spaces(q + 1, x2 - 1)
                /\ \E p \in (x2 + 1)..Len(text) : IsDigit(text[p]) /\ Spaces(x2 + 1, p - 1)
    IN  result.op = "can_parse" /\ result.arg = "TrainingParser" =>
            result.out.value = (IsDict(note) /\ note.text # <<>> /\ HasKey /\ HasTriple)

\* can_parse has answered true on a text none of whose lines holds both a
\* key and a set-triple
C12_Witness ==
    /\ result.op = "can_parse"
    /\ result.arg = "TrainingParser"
    /\ result.out.value = TRUE
    /\ \A i \in 1..Len(TrainingLines) :
          \/ Training_matched_abbr(TrainingLines[i]) = NoAbbr
          \/ Training_extract_sets(TrainingLines[i]) = <<>>

\* C13: when the scan takes a line that matches several keys of the table,
\* the key declared first in the table becomes the current exercise, wherever
\* the keys stand in the line; the set-triples of the line are all appended
\* to the one record of that key, and the records of the other matching keys
\* stay as they were (none is created)
C13_FirstDeclaredKeyWins ==
    [][idx' = idx + 1 =>
          LET line == TrainingLines[idx + 1]
              keys == { k \in 1..Len(EXERCISE_PATTERNS) :
                          Training_abbr_search(EXERCISE_PATTERNS[k].abbr, line) }
              first == EXERCISE_PATTERNS[CHOOSE k \in keys : \A j \in keys : k <= j].abbr
              sets == Training_extract_sets(line)
              RecordsOf(st, abbr) ==
                  SelectSeq(st.exercises_dict, LAMBDA e : e.abbreviation = abbr)
          IN  keys # {} =>
                  /\ remembered'.current_exercise = first
                  /\ \A k \in keys :
                        EXERCISE_PATTERNS[k].abbr # first =>
                            RecordsOf(remembered', EXERCISE_PATTERNS[k].abbr)
                                = RecordsOf(remembered, EXERCISE_PATTERNS[k].abbr)
                  /\ sets # <<>> =>
                        /\ Len(RecordsOf(remembered', first)) = 1
                        /\ RecordsOf(remembered', first)[1].sets =
                              (IF RecordsOf(remembered, first) = <<>> THEN <<>>
                               ELSE RecordsOf(remembered, first)[1].sets) \o sets
                  /\ sets = <<>> => remembered'.exercises_dict = remembered.exercises_dict
    ]_vars

\* the scan has just taken a line on which a key declared later ('Press')
\* stands before the key declared first ('Row'), and Row has the record
C13_Witness ==
    /\ idx >= 1
    /\ IsDict(note)
    /\ LET line == TrainingLines[idx]
       IN  /\ Len(line) >= 5
           /\ Training_abbr_search(<<"P", "r", "e", "s", "s">>, SubSeq(line, 1, 5))
           /\ Training_abbr_search(<<"R", "o", "w">>, line)
    /\ remembered.current_exercise = <<"R", "o", "w">>
    /\ DictHas(remembered.exercises_dict, <<"R", "o", "w">>)
    /\ ~DictHas(remembered.exercises_dict, <<"P", "r", "e", "s", "s">>)

\* C14: at every point of the scan, and in the record parse returns, every
\* exercise record has total_sets = the number of its sets >= 1; its sets are
\* the set-triples of the lines scanned so far that belong to its key (the
\* key matched on the line, else the exercise carried over from the line
\* before), in line order and left to right within a line; and its raw_line
\* is the stripped text of those lines, one segment each, joined by newlines
C14_RecordsAggregateTheirLines ==
    LET lines == TrainingLines
        sets == [i \in 1..idx |-> Training_extract_sets(lines[i])]
        matched == [i \in 1..idx |-> Training_matched_abbr(lines[i])]
        owner == [i \in 1..idx |->
                     IF matched[i] # NoAbbr THEN matched[i]
                     ELSE Training_scan(Training_scan_start,
                                        SubSeq(lines, 1, i - 1)).current_exercise]
        Contributing(abbr) ==
            SelectSeq([i \in 1..idx |-> i], LAMBDA i : sets[i] # <<>> /\ owner[i] = abbr)
        RECURSIVE Flat(_)
        Flat(ss) == IF ss = <<>> THEN <<>> ELSE ss[1] \o Flat(Tail(ss))
        Gathers(r, c) ==
            /\ r.total_sets = Len(r.sets)
            /\ r.total_sets >= 1
            /\ r.sets = Flat([k \in 1..Len(c) |-> sets[c[k]]])
            /\ r.raw_line = JoinLines([k \in 1..Len(c) |-> Strip(lines[c[k]])])
            /\ Len(SplitLines(r.raw_line)) = Len(c)
        Aggregate(d) == \A k \in 1..Len(d) : Gathers(d[k], Contributing(d[k].abbreviation))
    IN  /\ IsDict(note) => Aggregate(remembered.exercises_dict)
        /\ result.op = "extract" /\ result.out.kind = "ok" =>
              /\ idx = Len(lines)
              /\ Aggregate(result.out.value.exercises)

\* the scan holds a record of three sets gathered from two lines, the second
\* of which names no key
C14_Witness ==
    /\ IsDict(note)
    /\ idx >= 2
    /\ Training_matched_abbr(TrainingLines[idx]) = NoAbbr
    /\ \E k \in 1..Len(remembered.exercises_dict) :
          /\ remembered.exercises_dict[k].total_sets = 3
          /\ Len(SplitLines(remembered.exercises_dict[k].raw_line)) = 2

\* C15, as claimed: at most one record per key, and the records stand in the
\* order in which their keys were first matched by a line, also when the
\* first line that matches a key carries no sets
C15_RecordsInFirstMatchedOrder ==
    LET lines == TrainingLines
        d == remembered.exercises_dict
        FirstMatched(abbr) ==
            CHOOSE i \in 1..idx :
                /\ Training_matched_abbr(lines[i]) = abbr
                /\ \A j \in 1..(i - 1) : Training_matched_abbr(lines[j]) # abbr
    IN  IsDict(note) =>
            \A p, q \in 1..Len(d) :
                p < q => /\ d[p].abbreviation # d[q].abbreviation
                         /\ FirstMatched(d[p].abbreviation) < FirstMatched(d[q].abbreviation)

\* C15, amended: at most one record per key, and the records stand in the
\* order of first use: the order of the first lines that gave each key
\* sets.  A line that matches a key and carries no sets does not place it
C15_RecordsInFirstUseOrder ==
    LET lines == TrainingLines
        sets == [i \in 1..idx |-> Training_extract_sets(lines[i])]
        matched == [i \in 1..idx |-> Training_matched_abbr(lines[i])]
        owner == [i \in 1..idx |->
                     IF matched[i] # NoAbbr THEN matched[i]
                     ELSE Training_scan(Training_scan_start,
                                        SubSeq(lines, 1, i - 1)).current_exercise]
        used == { i \in 1..idx : sets[i] # <<>> /\ owner[i] # NoAbbr }
        FirstUse(abbr) ==
            CHOOSE i \in used :
                owner[i] = abbr /\ \A j \in used : owner[j] = abbr => i <= j
        InFirstUseOrder(d) ==
            /\ \A p, q \in 1..Len(d) :
                  p < q => /\ d[p].abbreviation # d[q].abbreviation
                           /\ FirstUse(d[p].abbreviation) < FirstUse(d[q].abbreviation)
            /\ \A i \in used : DictHas(d, owner[i])
    IN  /\ IsDict(note) => InFirstUseOrder(remembered.exercises_dict)
        /\ result.op = "extract" /\ result.out.kind = "ok" =>
              /\ idx = Len(lines)
              /\ InFirstUseOrder(result.out.value.exercises)

\* parse has returned two records, and the key of the second was matched,
\* on a line without sets, before the key of the first was matched at all
C15_Witness ==
    /\ result.op = "extract"
    /\ result.out.kind = "ok"
    /\ Len(result.out.value.exercises) = 2
    /\ Training_matched_abbr(TrainingLines[1]) = result.out.value.exercises[2].abbreviation
    /\ Training_extract_sets(TrainingLines[1]) = <<>>

\* C16: parse captures an activity for an embedded full timestamp iff it
\* differs from the creation timestamp once both are cut at the fraction of
\* a second and written with T, so a timestamp that denotes the creation
\* instant, written with T or with a space, is never captured; a captured
\* activity is the matched string with the stripped source line(s) it stands
\* in, and the activities come in the order of the matches
C16_ActivitiesSkipCreationInstant ==
    LET text == Training_normalize_checkboxes(note.text)
        lines == SplitLines(text)
        Norm(ts) == ReplaceChar(BeforeFirst(ts, "."), " ", <<"T">>)
        RECURSIVE Matches(_)
        Matches(i) ==
            IF i > Len(text) THEN <<>>
            ELSE IF Training_timestamp_pattern(text, i) THEN <<i>> \o Matches(i + 19)
            ELSE Matches(i + 1)
        LineOf(p) == 1 + Cardinality({ k \in 1..(p - 1) : text[k] = NL })
        kept == SelectSeq(Matches(1),
                          LAMBDA i : Norm(SubSeq(text, i, i + 18)) # Norm(note.created))
        expected ==
            [k \in 1..Len(kept) |->
                [timestamp |-> SubSeq(text, kept[k], kept[k] + 18),
                 activity |-> Strip(JoinLines(SubSeq(lines, LineOf(kept[k]),
                                                     LineOf(kept[k] + 18))))]]
        captured ==
            SelectSeq(result.out.value.completed_activities,
                      LAMBDA a : a.activity # WorkoutLogged)
    IN  result.op = "extract" /\ result.arg = "TrainingParser" /\ result.out.kind = "ok"
            => captured = expected

\* C17: the completed activities parse returns are: the captured ones alone
\* when the loop captured any; exactly one synthesized activity, with the
\* creation timestamp as given and the text "Workout logged", when it
\* captured none and there is a creation timestamp; nothing when it captured
\* none and there is no creation timestamp.  So the list is not empty
\* whenever there is a creation timestamp
C17_WorkoutLoggedOnlyWhenNothingCaptured ==
    LET activities == result.out.value.completed_activities
        captured == Training_activities_from(Training_normalize_checkboxes(note.text), 1,
                                             note.created)
        synthesized == [timestamp |-> note.created, activity |-> WorkoutLogged]
    IN  result.op = "extract" /\ result.arg = "TrainingParser" /\ result.out.kind = "ok" =>
            /\ captured = <<>> /\ note.created # <<>> => activities = <<synthesized>>
            /\ captured = <<>> /\ note.created = <<>> => activities = <<>>
            /\ captured # <<>> =>
                  /\ activities = captured
                  /\ \A k \in 1..Len(activities) : activities[k].activity # WorkoutLogged
            /\ note.created # <<>> => activities # <<>>

\* parse has synthesized the one activity from a creation timestamp with a
\* fraction of a second, for a text whose only embedded timestamp is the
\* creation timestamp
C17_Witness ==
    /\ result.op = "extract"
    /\ result.arg = "TrainingParser"
    /\ result.out.kind = "ok"
    /\ IndexOf(note.created, ".") > 0
    /\ \E i \in 1..Len(note.text) : Training_timestamp_pattern(note.text, i)
    /\ result.out.value.completed_activities =
          <<[timestamp |-> note.created, activity |-> WorkoutLogged]>>

(***************************************************************************)
(* HackerNewsParser and GenericNotesParser alone, called on notes whose    *)
(* text has at most MaxLines lines.  For HackerNews: item URLs in the      *)
(* title and in the text (several in a text, the same URL twice, a URL     *)
(* without an id), with and without the marker label.  For Generic: the    *)
(* same link several times, links that differ in a trailing comma, www     *)
(* links and a link cut by a bracket.                                      *)
(***************************************************************************)
HNLinePool ==
    { HNItemUrl,
      <<"a", " ", "h", "t", "t", "p">> \o HNHost \o <<"4", "2", " ", "b">>,
      <<"h", "t", "t", "p", "s">> \o HNHost \o <<" ", "#", "h", "n">>,
      PlainText }

LinkLinePool ==
    { <<"h", "t", "t", "p", "s", ":", "/", "/", "a", ".", "c", "o", " ", "a", "n", "d", " ",
        "h", "t", "t", "p", "s", ":", "/", "/", "a", ".", "c", "o", " ", "x">>,
      <<"w", "w", "w", ".", "b", ".", "i", "o", ",", " ",
        "h", "t", "t", "p", "s", ":", "/", "/", "a", ".", "c", "o">>,
      <<"(", "h", "t", "t", "p", ":", "/", "/", "c", ".", "i", "o", ")", " ",
        "w", "w", "w", ".", "b", ".", "i", "o">>,
      PlainText,
      <<>> }

LinkNotes ==
    { DictNote(StrId(<<"n">>), title, text, labels, <<>>, <<>>) :
        title \in { <<"t">>,
                    <<"H", "N", " ", "h", "t", "t", "p">> \o HNHost \o <<"1", "2">>,
                    HNItemUrl },
        text \in TextsOf(HNLinePool, MaxLines),
        labels \in { <<>>,
                     <<StrLabel(DOWNLOAD_HN_LABEL)>>,
                     <<StrLabel(LowerStr(DOWNLOAD_HN_LABEL))>>,
                     <<StrLabel(DOWNLOAD_HN_LABEL \o <<"2">>)>>,
                     <<StrLabel(<<"x">>), StrLabel(DOWNLOAD_HN_LABEL)>> } }
    \cup { DictNote(StrId(<<"n">>), <<"t">>, text, <<>>, <<>>, <<>>) :
             text \in TextsOf(LinkLinePool, MaxLines) }
    \cup { EmptyDict }
    \cup NonDictNotes

InitLinks ==
    /\ parsers = <<>>
    /\ note \in LinkNotes
    /\ result = NoResult
    /\ remembered = None
    /\ BatchIdle

NextLinks ==
    \/ CanParse("HackerNewsParser")
    \/ Extract("HackerNewsParser")
    \/ Extract("GenericNotesParser")

SpecLinks == InitLinks /\ [][NextLinks]_vars

\* C18: HackerNews.can_parse(note) is true iff the note is a dict and some
\* label, as a string, is exactly "Download-HN", or the title or the text
\* holds an item URL: http or https, ://news.ycombinator.com/item?id= and at
\* least one digit.  It is false for a dict with neither, the empty dict
\* included
C18_HNCanParseIffLabelOrItemUrl ==
    LET HasItemUrl(s) ==
            \E i \in 1..Len(s) :
                \E scheme \in { <<"h", "t", "t", "p">>, <<"h", "t", "t", "p", "s">> } :
                    /\ StartsWithAt(s, i, scheme \o HNHost)
                    /\ i + Len(scheme) + Len(HNHost) <= Len(s)
                    /\ IsDigit(s[i + Len(scheme) + Len(HNHost)])
        HasLabel == \E k \in 1..Len(note.labels) : note.labels[k].value = DOWNLOAD_HN_LABEL
    IN  /\ result.op = "can_parse" /\ result.arg = "HackerNewsParser" =>
              result.out.value =
                  (IsDict(note) /\ (HasLabel \/ HasItemUrl(note.title) \/ HasItemUrl(note.text)))
        /\ result.op = "can_parse" /\ result.arg = "HackerNewsParser" /\ note = EmptyDict =>
              result.out.value = FALSE

\* can_parse has answered true for a note whose only item URL is in the
\* title and whose label is the marker in lower case
C18_Witness ==
    /\ result.op = "can_parse"
    /\ result.arg = "HackerNewsParser"
    /\ result.out.value = TRUE
    /\ note.labels = <<StrLabel(LowerStr(DOWNLOAD_HN_LABEL))>>
    /\ note.title = HNItemUrl
    /\ note.text = PlainText

\* C19: HackerNews.parse returns as hn_links every item URL of the title, in
\* order, then every item URL of the text, in order, a repeated URL as often
\* as it occurs; url and item_id are those of hn_links[1] when there is one
\* (so a URL of the title goes before any URL of the text), and both are
\* empty exactly when hn_links is empty
C19_HNLinksTitleThenText ==
    LET Starts(s) ==
            SelectSeq([i \in 1..Len(s) |-> i],
                      LAMBDA i :
                          \E scheme \in { <<"h", "t", "t", "p">>, <<"h", "t", "t", "p", "s">> } :
                              /\ StartsWithAt(s, i, scheme \o HNHost)
                              /\ DigitRun(s, i + Len(scheme) + Len(HNHost)) >= 1)
        IdAt(s, i) == IF s[i + 4] = "s" THEN i + 5 + Len(HNHost) ELSE i + 4 + Len(HNHost)
        LinkAt(s, i) ==
            [url |-> SubSeq(s, i, IdAt(s, i) + DigitRun(s, IdAt(s, i)) - 1),
             item_id |-> SubSeq(s, IdAt(s, i), IdAt(s, i) + DigitRun(s, IdAt(s, i)) - 1)]
        LinksOf(s) == [k \in 1..Len(Starts(s)) |-> LinkAt(s, Starts(s)[k])]
        r == result.out.value
    IN  result.op = "extract" /\ result.arg = "HackerNewsParser" /\ result.out.kind = "ok" =>
            /\ r.hn_links = LinksOf(note.title) \o LinksOf(note.text)
            /\ r.hn_links # <<>> =>
                  r.url = r.hn_links[1].url /\ r.item_id = r.hn_links[1].item_id
            /\ r.hn_links = <<>> <=> r.url = <<>>
            /\ r.hn_links = <<>> <=> r.item_id = <<>>

\* parse has returned at least three links for a note with an item URL in
\* the title and the same URL again in the text, behind another one
C19_Witness ==
    /\ result.op = "extract"
    /\ result.arg = "HackerNewsParser"
    /\ result.out.kind = "ok"
    /\ note.title = HNItemUrl
    /\ Len(result.out.value.hn_links) >= 3
    /\ result.out.value.hn_links[2].url # HNItemUrl
    /\ result.out.value.hn_links[3].url = result.out.value.url


\* C20: the links GenericNotesParser.parse returns hold no link twice, hold
\* exactly the URLs that occur in the text, and stand in the order of their
\* first occurrences: link A is before link B iff the first occurrence of A
\* is before the first occurrence of B.  An occurrence is a place where
\* URL_PATTERN matches that no match starting further left runs over
C20_LinksUniqueInFirstOccurrenceOrder ==
    LET text == note.text
        len == [i \in 1..Len(text) |-> Generic_URL_PATTERN(text, i)]
        occurrences ==
            { i \in 1..Len(text) :
                /\ len[i] > 0
                /\ ~\E j \in 1..(i - 1) : len[j] > 0 /\ j + len[j] > i }
        url == [i \in occurrences |-> SubSeq(text, i, i + len[i] - 1)]
        first == [i \in occurrences |->
                     CHOOSE j \in occurrences :
                         url[j] = url[i] /\ \A k \in occurrences : url[k] = url[i] => j <= k]
        links == result.out.value.links
        place == [a \in 1..Len(links) |->
                     CHOOSE i \in occurrences : url[i] = links[a] /\ first[i] = i]
    IN  result.op = "extract" /\ result.arg = "GenericNotesParser" /\ result.out.kind = "ok" =>
            /\ \A a, b \in 1..Len(links) : links[a] = links[b] => a = b
            /\ { links[a] : a \in 1..Len(links) } = { url[i] : i \in occurrences }
            /\ \A a, b \in 1..Len(links) : a < b <=> place[a] < place[b]

\* parse has returned two links or more for a text in which a link occurs,
\* then another link, then the first link again
C20_Witness ==
    /\ result.op = "extract"
    /\ result.arg = "GenericNotesParser"
    /\ result.out.kind = "ok"
    /\ Len(result.out.value.links) >= 2
    /\ \E i, j, k \in 1..Len(note.text) :
          /\ i < j /\ j < k
          /\ Generic_URL_PATTERN(note.text, i) > 0
          /\ SubSeq(note.text, i, i + Generic_URL_PATTERN(note.text, i) - 1)
                 = result.out.value.links[1]
          /\ Generic_URL_PATTERN(note.text, j) > 0
          /\ SubSeq(note.text, j, j + Generic_URL_PATTERN(note.text, j) - 1)
                 = result.out.value.links[2]
          /\ Generic_URL_PATTERN(note.text, k) = Generic_URL_PATTERN(note.text, i)
          /\ SubSeq(note.text, k, k + Generic_URL_PATTERN(note.text, k) - 1)
                 = result.out.value.links[1]

(***************************************************************************)
(* GenericNotesParser alone, called on notes whose text has at most        *)
(* MaxLines lines: checkbox lines with either glyph, with blanks before    *)
(* the glyph, between glyph and text and behind the text, a glyph alone,   *)
(* a glyph in the middle of a line, two glyphs, blank and empty lines.     *)
(***************************************************************************)
CheckboxLinePool ==
    { <<UNCHECKED_BOX, " ", "a">>,
      <<" ", CHECKED_BOX, " ", " ", "b", " ", "c", " ">>,
      <<CHECKED_BOX, "d">>,
      <<" ", UNCHECKED_BOX, " ">>,
      <<UNCHECKED_BOX, CHECKED_BOX, " ", "e">>,
      <<" ", "f", " ", CHECKED_BOX, " ", "g">>,
      <<" ", " ">>,
      <<>> }

CheckboxNotes ==
    { DictNote(StrId(<<"n">>), <<"t">>, text, <<>>, <<>>, <<>>) :
        text \in TextsOf(CheckboxLinePool, MaxLines) }
    \cup { EmptyDict }
    \cup NonDictNotes

InitCheckboxes ==
    /\ parsers = <<>>
    /\ note \in CheckboxNotes
    /\ result = NoResult
    /\ remembered = None
    /\ BatchIdle

NextCheckboxes ==
    \/ CanParse("GenericNotesParser")
    \/ Extract("GenericNotesParser")

SpecCheckboxes == InitCheckboxes /\ [][NextCheckboxes]_vars

\* C21: GenericNotesParser.parse splits the lines that are not blank into two
\* lists.  A line that, stripped, is a checkbox glyph followed by something
\* gives one Checkbox (checked iff the glyph is the checked one, its text
\* stripped and not empty); every other non-blank line, a glyph alone
\* included, gives its stripped text to rest; a blank line gives nothing.
\* Both lists are in the order of the lines, so their lengths add up to the
\* number of non-blank lines
C21_LinesSplitIntoCheckboxesAndRest ==
    LET lines == SplitLines(note.text)
        stripped == [k \in 1..Len(lines) |-> Strip(lines[k])]
        IsBox(s) == Len(s) >= 2 /\ s[1] \in {UNCHECKED_BOX, CHECKED_BOX}
        boxes == SelectSeq(stripped, IsBox)
        free == SelectSeq(stripped, LAMBDA s : s # <<>> /\ ~IsBox(s))
        r == result.out.value
    IN  result.op = "extract" /\ result.arg = "GenericNotesParser" /\ result.out.kind = "ok" =>
            /\ r.checkboxes = [k \in 1..Len(boxes) |->
                                  [checked |-> boxes[k][1] = CHECKED_BOX,
                                   text |-> Strip(SubSeq(boxes[k], 2, Len(boxes[k])))]]
            /\ \A k \in 1..Len(r.checkboxes) :
                  /\ r.checkboxes[k].text # <<>>
                  /\ r.checkboxes[k].text = Strip(r.checkboxes[k].text)
            /\ r.rest = free
            /\ Len(r.checkboxes) + Len(r.rest)
                   = Cardinality({ k \in 1..Len(lines) : stripped[k] # <<>> })

\* parse has returned a checked box behind an unchecked one and a glyph alone
\* as free text
C21_Witness ==
    /\ result.op = "extract"
    /\ result.arg = "GenericNotesParser"
    /\ result.out.kind = "ok"
    /\ Len(result.out.value.checkboxes) = 2
    /\ ~result.out.value.checkboxes[1].checked
    /\ result.out.value.checkboxes[2].checked
    /\ result.out.value.checkboxes[2].text = <<"b", " ", "c">>
    /\ result.out.value.rest = << <<UNCHECKED_BOX>> >>

\* C22: the list of registered classes only grows at its end: whatever
\* operation of the registry runs, the list before it is a prefix of the list
\* after it, so no registered class is removed and no two change places
C22_ParsersOnlyGrowAtTheEnd ==
    [][/\ Len(parsers) <= Len(parsers')
       /\ SubSeq(parsers', 1, Len(parsers)) = parsers]_vars

(***************************************************************************)
(* Several calls of ParserRegistry.parse at once on one registry, each on  *)
(* its own note.  Here note is the tuple of the notes, one per call, and   *)
(* remembered holds the frame of every call: where it stands (pc), the     *)
(* position of the for loop of get_parser (i), its locals parser,          *)
(* parsed_data and schema, and what it returned or raised (out).  A step   *)
(* of a call is one iteration of the loop of get_parser, the call of       *)
(* parser.parse, the call of get_schema, or the validation.  A frame is    *)
(* private to its call; the list self._parsers is shared.                  *)
(***************************************************************************)
MaxThreads == 2

Threads == 1..MaxThreads

StartFrame ==
    [pc |-> "get_parser", i |-> 1, parser |-> "", parsed_data |-> None,
     schema |-> "", out |-> None]

\* one step of call t, with a fault: the parser get_parser chose is kept in
\* one place for all calls
Registry_parse_step_SharedParser(ps, notes, frames, t) ==
    LET Returned(f, out) == [f EXCEPT !.pc = "done", !.out = out]
        Parsed(f, parsed_data) ==
            IF parsed_data.kind = "error" THEN Returned(f, parsed_data)
            ELSE [f EXCEPT !.pc = "get_schema", !.parsed_data = parsed_data]
        Validated(f, validation) ==
            IF validation.kind = "error"
            THEN Returned(f, SchemaViolation(validation.message))
            ELSE Returned(f, Ok(f.parsed_data.value))
        Step(f, n) ==
            CASE f.pc = "get_parser" ->
                   IF f.i > Len(ps) THEN Returned(f, Raise("ValueError", NoSuitableParser))
                   ELSE IF NoteParser_can_parse(ps[f.i], n)
                   THEN [f EXCEPT !.pc = "parse", !.parser = ps[f.i]]
                   ELSE [f EXCEPT !.i = f.i + 1]
              [] f.pc = "parse" -> Parsed(f, NoteParser_parse(f.parser, n))
              [] f.pc = "get_schema" ->
                   [f EXCEPT !.pc = "validate", !.schema = NoteParser_get_schema(f.parser)]
              [] f.pc = "validate" ->
                   Validated(f, jsonschema_validate(f.parsed_data.value, f.schema))
              [] f.pc = "done" -> f
        Shared(stepped) ==
            [u \in DOMAIN frames |->
                IF u = t THEN stepped
                ELSE [frames[u] EXCEPT !.parser = IF stepped.parser # frames[t].parser
                                                  THEN stepped.parser ELSE @]]
    IN  Shared(Step(frames[t], notes[t]))

\* one step of call t of parse (base.py 34-63): get_parser's loop over
\* self._parsers, parser.parse, parser.get_schema, validate; it reads the
\* shared list, the note of the call and the frame of the call, and writes
\* the frame of the call
Registry_parse_step(ps, notes, frames, t) ==
    LET Returned(f, out) == [f EXCEPT !.pc = "done", !.out = out]
        Parsed(f, parsed_data) ==
            IF parsed_data.kind = "error" THEN Returned(f, parsed_data)
            ELSE [f EXCEPT !.pc = "get_schema", !.parsed_data = parsed_data]
        Validated(f, validation) ==
            IF validation.kind = "error"
            THEN Returned(f, SchemaViolation(validation.message))
            ELSE Returned(f, Ok(f.parsed_data.value))
        Step(f, n) ==
            CASE f.pc = "get_parser" ->
                   IF f.i > Len(ps) THEN Returned(f, Raise("ValueError", NoSuitableParser))
                   ELSE IF NoteParser_can_parse(ps[f.i], n)
                   THEN [f EXCEPT !.pc = "parse", !.parser = ps[f.i]]
                   ELSE [f EXCEPT !.i = f.i + 1]
              [] f.pc = "parse" -> Parsed(f, NoteParser_parse(f.parser, n))
              [] f.pc = "get_schema" ->
                   [f EXCEPT !.pc = "validate", !.schema = NoteParser_get_schema(f.parser)]
              [] f.pc = "validate" ->
                   Validated(f, jsonschema_validate(f.parsed_data.value, f.schema))
              [] f.pc = "done" -> f
    IN  [frames EXCEPT ![t] = Step(frames[t], notes[t])]

ConcurrentRegistries ==
    { MainRegistry,
      Registry_register(MainRegistry, "GenericNotesParser").parsers,
      <<"TrainingParser", "TimeEntryParser">> }

InitConcurrent ==
    /\ parsers \in ConcurrentRegistries
    /\ note \in { ns \in [Threads -> RegistryNotes] :
                    \A t, u \in Threads : t # u => ns[t] # ns[u] }
    /\ result = NoResult
    /\ remembered = [t \in Threads |-> StartFrame]
    /\ BatchIdle

\* the scheduler lets call t take its next step
ParseStep(t) ==
    /\ remembered[t].pc # "done"
    /\ remembered' = Registry_parse_step(parsers, note, remembered, t)
    /\ UNCHANGED <<parsers, note, result, files, idx, processed_count, attempts>>

NextConcurrent == \E t \in Threads : ParseStep(t)

SpecConcurrent == InitConcurrent /\ [][NextConcurrent]_vars

\* C23: calls of Registry.parse that run at once on one registry, each on its
\* own note, need no lock: in every interleaving of their steps a call that
\* has finished has returned or raised what Registry.parse gives for its note
\* alone, from the class it would choose alone; and a step of a call changes
\* the frame of that call only, to what it would be whatever the other calls
\* have written, and leaves the shared list alone
C23_ConcurrentParseAsAlone ==
    /\ [](\A t \in Threads :
             remembered[t].pc = "done" =>
                 /\ remembered[t].out = Registry_parse(parsers, note[t]).out
                 /\ remembered[t].parser = Registry_parse(parsers, note[t]).parser)
    /\ [][/\ parsers' = parsers
          /\ \A t \in Threads :
                remembered'[t] # remembered[t] =>
                    /\ \A u \in Threads \ {t} : remembered'[u] = remembered[u]
                    /\ \A others \in {StartFrame} \cup { remembered[u] : u \in Threads } :
                          remembered'[t]
                              = Registry_parse_step(
                                    parsers, note,
                                    [u \in Threads |-> IF u = t THEN remembered[t] ELSE others],
                                    t)[t]]_vars

\* call 1 has returned a time-entry record while call 2, which chose
\* TrainingParser for its own note, stands between parse and validate
C23_Witness ==
    /\ remembered[1].pc = "done"
    /\ remembered[1].parser = "TimeEntryParser"
    /\ remembered[1].out.kind = "ok"
    /\ remembered[2].pc = "validate"
    /\ remembered[2].parser = "TrainingParser"

\* C24: the registry main() builds ends with the catch-all GenericNotesParser,
\* behind the more specific classes, so every file that holds a dict finds a
\* parser: none of the files the loop has attempted fails with 'No suitable
\* parser found'
C24_DriverRegistersCatchAllLast ==
    /\ \A i \in 1..Len(attempts) :
          LET file == files[attempts[i].file]
          IN  file.read = "ok" /\ IsDict(file.note) =>
                  Registry_get_parser(parsers, file.note).kind = "ok"
    /\ parsers # <<>>
    /\ parsers[Len(parsers)] = "GenericNotesParser"
    /\ \A k \in 1..(Len(parsers) - 1) : parsers[k] # "GenericNotesParser"

(***************************************************************************)
(* The line scan of TrainingParser on texts of at most MaxLines lines that *)
(* differ in what they carry and in their indent: a key with sets, a key   *)
(* alone on an indented line, sets alone at indent 3 and at indent 0,      *)
(* lines with neither at indent 3 and at indent 1, and the empty line.     *)
(***************************************************************************)
ScanLinePool ==
    { <<"B", "p", " ", "3", "x", "8", "x", "1", "0", "0">>,
      <<" ", " ", "s", "q">>,
      <<" ", " ", " ", "4", "x", "6", "x", "9", "0">>,
      <<"2", "x", "2", "x", "2", "0">>,
      <<" ", " ", " ", "o", "k">>,
      <<" ", "o", "k">>,
      <<>> }

ScanNotes ==
    { DictNote(StrId(<<"n">>), <<"t">>, text, <<>>, CreatedIso, <<>>) :
        text \in TextsOf(ScanLinePool, MaxLines) }

InitScan ==
    /\ parsers = <<>>
    /\ note \in ScanNotes
    /\ result = NoResult
    /\ remembered = Training_scan_start
    /\ BatchIdle

SpecScan == InitScan /\ [][NextTraining]_vars

\* C25: when the scan takes a line, the set-triples of the line go to the key
\* matched on the line if there is one, else to the exercise carried over;
\* the record of that key alone gains them, at its end.  With neither, the
\* sets are dropped and the records stay as they were.  A line with a key
\* and no sets makes the key the current exercise and leaves the records as
\* they were
C25_SetsGoToMatchedElseCarried ==
    [][idx' = idx + 1 =>
          LET line == TrainingLines[idx + 1]
              keys == { k \in 1..Len(EXERCISE_PATTERNS) :
                          Training_abbr_search(EXERCISE_PATTERNS[k].abbr, line) }
              owner == IF keys # {}
                       THEN EXERCISE_PATTERNS[CHOOSE k \in keys : \A j \in keys : k <= j].abbr
                       ELSE remembered.current_exercise
              sets == Training_extract_sets(line)
              RecordsOf(st, abbr) ==
                  SelectSeq(st.exercises_dict, LAMBDA e : e.abbreviation = abbr)
              SetsOf(st, abbr) ==
                  IF RecordsOf(st, abbr) = <<>> THEN <<>> ELSE RecordsOf(st, abbr)[1].sets
          IN  /\ sets # <<>> /\ owner # NoAbbr =>
                    /\ Len(RecordsOf(remembered', owner)) = 1
                    /\ SetsOf(remembered', owner) = SetsOf(remembered, owner) \o sets
                    /\ \A k \in 1..Len(EXERCISE_PATTERNS) :
                          EXERCISE_PATTERNS[k].abbr # owner =>
                              RecordsOf(remembered', EXERCISE_PATTERNS[k].abbr)
                                  = RecordsOf(remembered, EXERCISE_PATTERNS[k].abbr)
                    /\ Len(remembered'.exercises_dict)
                           = Len(remembered.exercises_dict)
                             + (IF RecordsOf(remembered, owner) = <<>> THEN 1 ELSE 0)
              /\ sets # <<>> /\ owner = NoAbbr =>
                    remembered'.exercises_dict = remembered.exercises_dict
              /\ sets = <<>> =>
                    /\ remembered'.exercises_dict = remembered.exercises_dict
                    /\ keys # {} => remembered'.current_exercise = owner
    ]_vars

\* the scan has taken a line with a key and no sets and then a line with
\* sets and no key: the record of the key holds the sets of the second line
C25_Witness ==
    /\ idx = 2
    /\ Training_matched_abbr(TrainingLines[1]) = <<"S", "q">>
    /\ Training_extract_sets(TrainingLines[1]) = <<>>
    /\ Training_matched_abbr(TrainingLines[2]) = NoAbbr
    /\ Len(remembered.exercises_dict) = 1
    /\ remembered.exercises_dict[1].abbreviation = <<"S", "q">>
    /\ remembered.exercises_dict[1].sets = Training_extract_sets(TrainingLines[2])

\* C26: when the scan takes a line, the current exercise is cleared exactly
\* when the line has no key, no set-triples, and an indent that is not above
\* previous_indent; otherwise it is the key matched on the line, or what it
\* was.  So the empty line always clears it, and sets on a later line
\* without a key do not reach the exercise named before the empty line
C26_ContextClearedOnlyByPlainDedent ==
    [][idx' = idx + 1 =>
          LET line == TrainingLines[idx + 1]
              indent == Cardinality({ k \in 1..Len(line) :
                                        \A j \in 1..k : IsSpace(line[j]) })
              keys == { k \in 1..Len(EXERCISE_PATTERNS) :
                          Training_abbr_search(EXERCISE_PATTERNS[k].abbr, line) }
              sets == Training_extract_sets(line)
              plain == keys = {} /\ sets = <<>>
          IN  /\ plain /\ indent <= remembered.previous_indent =>
                    remembered'.current_exercise = NoAbbr
              /\ plain /\ indent > remembered.previous_indent =>
                    remembered'.current_exercise = remembered.current_exercise
              /\ keys = {} /\ sets # <<>> =>
                    remembered'.current_exercise = remembered.current_exercise
              /\ keys # {} =>
                    remembered'.current_exercise
                        = EXERCISE_PATTERNS[CHOOSE k \in keys : \A j \in keys : k <= j].abbr
              /\ line = <<>> =>
                    /\ remembered'.current_exercise = NoAbbr
                    /\ remembered'.exercises_dict = remembered.exercises_dict
              /\ remembered.current_exercise = NoAbbr /\ keys = {} =>
                    remembered'.exercises_dict = remembered.exercises_dict
    ]_vars

\* the scan has taken a line with a key and sets, the empty line, and a line
\* with sets alone: the record holds the sets of the first line only and no
\* exercise is current
C26_Witness ==
    /\ idx = 3
    /\ Training_matched_abbr(TrainingLines[1]) = <<"B", "p">>
    /\ TrainingLines[2] = <<>>
    /\ Training_matched_abbr(TrainingLines[3]) = NoAbbr
    /\ Training_extract_sets(TrainingLines[3]) # <<>>
    /\ Len(remembered.exercises_dict) = 1
    /\ remembered.exercises_dict[1].sets = Training_extract_sets(TrainingLines[1])
    /\ remembered.current_exercise = NoAbbr

\* C27 as claimed: at every point of the scan previous_indent is the indent
\* of the last line taken so far that matched a key or gave its set-triples
\* to the current exercise, and 0 before any such line
C27_IndentOfLastMatchOrSets ==
    LET lines == TrainingLines
        indent == [k \in 1..idx |->
                      Cardinality({ i \in 1..Len(lines[k]) :
                                      \A j \in 1..i : IsSpace(lines[k][j]) })]
        matched == [k \in 1..idx |-> Training_matched_abbr(lines[k]) # NoAbbr]
        before == [k \in 1..idx |->
                      Training_scan(Training_scan_start, SubSeq(lines, 1, k - 1))]
        context == { k \in 1..idx :
                       \/ matched[k]
                       \/ /\ Training_extract_sets(lines[k]) # <<>>
                          /\ before[k].current_exercise # NoAbbr }
    IN  result.op = "none" =>
            remembered.previous_indent
                = IF context = {} THEN 0
                  ELSE indent[CHOOSE k \in context : \A j \in context : j <= k]

\* C27: at every point of the scan previous_indent is the indent of the last
\* line taken so far that matched a key, and 0 before any such line; a line
\* that only gives set-triples to the current exercise leaves it as it was
C27_IndentOfLastMatch ==
    LET lines == TrainingLines
        indent == [k \in 1..idx |->
                      Cardinality({ i \in 1..Len(lines[k]) :
                                      \A j \in 1..i : IsSpace(lines[k][j]) })]
        context == { k \in 1..idx :
                       \E a \in 1..Len(EXERCISE_PATTERNS) :
                           Training_abbr_search(EXERCISE_PATTERNS[a].abbr, lines[k]) }
    IN  result.op = "none" =>
            remembered.previous_indent
                = IF context = {} THEN 0
                  ELSE indent[CHOOSE k \in context : \A j \in context : j <= k]

\* the scan has taken a line with a key at indent 2 and then a line at
\* indent 3 whose sets went to that key: previous_indent is still 2
C27_Witness ==
    /\ idx = 2
    /\ result.op = "none"
    /\ TrainingLines[1] = <<" ", " ", "s", "q">>
    /\ Len(remembered.exercises_dict) = 1
    /\ remembered.exercises_dict[1].raw_line = <<"4", "x", "6", "x", "9", "0">>
    /\ remembered.previous_indent = 2

(***************************************************************************)
(* Registry.parse on the registry main() builds, for notes that one, two   *)
(* or all three of its classes can parse: time-code lines that are workout *)
(* lines too, with and without an item URL in the title and the marker     *)
(* label.                                                                  *)
(***************************************************************************)
MaxDispatchLines == 2

DispatchLinePool ==
    { <<"0", "6", "3", "7", " ">> \o WorkoutLine,
      <<"1", "4", "2", "0", " ", "L">>,
      <<"S", "q", " ", "3", "x", "5", "x", "8", "0">>,
      PlainText }

DispatchNotes ==
    { DictNote(StrId(<<"n">>), title, text, labels, CreatedIso, <<>>) :
        title \in { <<"t">>, HNItemUrl },
        text \in TextsOf(DispatchLinePool, MaxDispatchLines),
        labels \in { <<>>, <<StrLabel(DOWNLOAD_HN_LABEL)>> } }
    \cup { EmptyDict }
    \cup NonDictNotes

InitDispatch ==
    /\ parsers = MainRegistry
    /\ note \in DispatchNotes
    /\ result = NoResult
    /\ remembered = None
    /\ BatchIdle

NextDispatch ==
    \/ \E parser_class \in { parsers[k] : k \in 1..Len(parsers) } : CanParse(parser_class)
    \/ GetParser
    \/ Parse

SpecDispatch == InitDispatch /\ [][NextDispatch]_vars

\* C28 as claimed: on the registry of main(), a note that TimeEntryParser and
\* TrainingParser both can parse is parsed by TimeEntryParser and gives no
\* workout record; and a note HackerNewsParser can parse is parsed by neither
\* of the two
C28_TimeEntryBeforeTraining ==
    result.op = "parse" =>
        /\ TimeEntry_can_parse(note) /\ Training_can_parse(note) =>
              /\ result.parser = "TimeEntryParser"
              /\ result.out.kind = "ok" => result.out.value.type # "WorkoutData"
        /\ HackerNews_can_parse(note) =>
              result.parser \notin {"TimeEntryParser", "TrainingParser"}

\* C28: on the registry of main(), a note HackerNewsParser can parse is
\* parsed by HackerNewsParser, never by the two others; a note that
\* TimeEntryParser and TrainingParser both can parse and HackerNewsParser
\* cannot is parsed by TimeEntryParser; and in both cases no workout record
\* comes back
C28_RegistrationOrderDecidesOverlap ==
    result.op = "parse" =>
        /\ HackerNews_can_parse(note) =>
              /\ result.parser = "HackerNewsParser"
              /\ result.out.kind = "ok" /\ result.out.value.type = "ParsedNote"
        /\ ~HackerNews_can_parse(note) /\ TimeEntry_can_parse(note)
             /\ Training_can_parse(note) =>
              /\ result.parser = "TimeEntryParser"
              /\ result.out.kind = "ok" /\ result.out.value.type = "ParseResult"
        /\ TimeEntry_can_parse(note) /\ Training_can_parse(note) =>
              ~(result.out.kind = "ok" /\ result.out.value.type = "WorkoutData")

\* parse has returned the time entries of a note whose two lines are both
\* time-code lines and workout lines
C28_Witness ==
    /\ result.op = "parse"
    /\ result.parser = "TimeEntryParser"
    /\ result.out.kind = "ok"
    /\ Len(result.out.value.time_entries) = 2
    /\ Training_can_parse(note)
    /\ Len(Training_parse(note).value.exercises) = 1
    /\ ~HackerNews_can_parse(note)

\* C29 as claimed: parse returns a non-empty exercise list exactly when some
\* line with set-triples has an owner, the key matched on it or the exercise
\* carried over to it; and every note can_parse accepts gives at least one
\* exercise record
C29_AcceptedNoteHasExercise ==
    LET lines == TrainingLines
        before == [k \in 1..Len(lines) |->
                      Training_scan(Training_scan_start, SubSeq(lines, 1, k - 1))]
        owned == \E k \in 1..Len(lines) :
                     /\ Training_extract_sets(lines[k]) # <<>>
                     /\ \/ Training_matched_abbr(lines[k]) # NoAbbr
                        \/ before[k].current_exercise # NoAbbr
    IN  result.op = "extract" /\ result.out.kind = "ok" =>
            /\ result.out.value.exercises # <<>> <=> owned
            /\ Training_can_parse(note) => result.out.value.exercises # <<>>

\* C29: parse returns a non-empty exercise list exactly when some line with
\* set-triples has an owner, the key matched on it or the exercise carried
\* over to it; every note that gives an exercise record is one can_parse
\* accepts.  (The converse fails: can_parse looks for a key and a set-triple
\* anywhere in the text.)
C29_ExerciseOnlyForAcceptedNote ==
    LET lines == TrainingLines
        before == [k \in 1..Len(lines) |->
                      Training_scan(Training_scan_start, SubSeq(lines, 1, k - 1))]
        owned == \E k \in 1..Len(lines) :
                     /\ Training_extract_sets(lines[k]) # <<>>
                     /\ \/ Training_matched_abbr(lines[k]) # NoAbbr
                        \/ before[k].current_exercise # NoAbbr
    IN  result.op = "extract" /\ result.out.kind = "ok" =>
            /\ result.out.value.exercises # <<>> <=> owned
            /\ result.out.value.exercises # <<>> => Training_can_parse(note)

\* parse has returned no exercise for a note can_parse accepts: the key
\* stands on the first line, the sets on the third, and the empty line between
\* them has cleared the current exercise
C29_Witness ==
    /\ result.op = "extract"
    /\ result.out.kind = "ok"
    /\ result.out.value.exercises = <<>>
    /\ Training_can_parse(note)
    /\ Len(TrainingLines) = 3
    /\ Training_matched_abbr(TrainingLines[1]) # NoAbbr
    /\ TrainingLines[2] = <<>>
    /\ Training_extract_sets(TrainingLines[3]) # <<>>

\* C30: the sort of TimeEntryParser.parse is stable: the entries that have the
\* same canonical time stand in the result in the order of their lines; and
\* a text whose times are in order but for such ties (no time is smaller than
\* one before it) gives no warning
C30_SortKeepsLineOrderOfTies ==
    Extracted =>
        LET es == result.out.value.time_entries
            ls == ValidTimeLines(note.text)
            original == OriginalTimes(note.text)
            in_line_order == [i \in 1..Len(ls) |->
                                 [time |-> original[i], raw_line |-> Strip(ls[i])]]
            RawLines(seq, t) ==
                LET tied == SelectSeq(seq, LAMBDA e : e.time = t)
                IN  [k \in 1..Len(tied) |-> tied[k].raw_line]
        IN  /\ \A i \in 1..Len(original) :
                  RawLines(es, original[i]) = RawLines(in_line_order, original[i])
            /\ NonDecreasing(original) => result.out.value.warnings = <<>>

\* parse has returned, without a warning, the entries of the lines '637 w',
\* '0637 W' and '1420 L' in that order: the two entries of 06:37 as their
\* lines stand
C30_Witness ==
    /\ Extracted
    /\ Len(result.out.value.time_entries) = 3
    /\ result.out.value.time_entries[1].raw_line = <<"6", "3", "7", " ", "w">>
    /\ result.out.value.time_entries[2].raw_line = <<"0", "6", "3", "7", " ", "W">>
    /\ result.out.value.time_entries[1].time = result.out.value.time_entries[2].time
    /\ result.out.value.time_entries[3].raw_line = <<"1", "4", "2", "0", " ", "L">>
    /\ result.out.value.warnings = <<>>

=============================================================================
